---- MODULE Spec2Model ----
(***************************************************************************)
(* Model of the mcagent control loop: BridgeClient (bridge_client.py),     *)
(* VLMPolicy (policy.py) and AgentLoop (loop.py), and of the run and the   *)
(* timing statistics of BenchmarkRunner (benchmark.py).                    *)
(*                                                                         *)
(* Scheduling.  AgentLoop.run and BridgeClient.receive_messages are two    *)
(* asyncio tasks on one event loop.  The read task runs only while the     *)
(* main task is suspended in an await that really yields: asyncio.sleep    *)
(* (loop.py:120), a websocket send that has to drain (bridge_client.py     *)
(* :81) or the close handshake (loop.py:127).  VLMPolicy.get_action is an  *)
(* ordinary synchronous call (loop.py:168), so the event loop is held for  *)
(* as long as it runs.                                                     *)
(*                                                                         *)
(* protocol.py defines no ActionMessage although policy.py constructs one; *)
(* its constructor is modelled from the design's ActionCommand: the record *)
(* of the keyword arguments given at policy.py:269-282 and 286-297, with   *)
(* the movement axes clamped to [-1, 1] and the duration to [20, 2000].    *)
(***************************************************************************)
EXTENDS Integers, Sequences, FiniteSets, TLC

\* ---------------------------------------------------------------- bounds
\* Ticks a run starts while its statistics are counted.
MaxTicks == 2
\* Messages the bridge sends in a run.
MaxMsgs == 2

\* ------------------------------------------------------------- constants
MSG_TYPE_FRAME == 1
MIN_BINARY_LEN == 9
\* the values Config.from_env gives when the environment sets none
ACTION_DURATION_MS_DEFAULT == 150
DECISION_HZ == 6

\* Optional values: None is the empty sequence, Some(x) a one-element one.
None == <<>>
Some(x) == <<x>>


VARIABLES
    counted,         \* whether this run keeps AgentLoop.stats (see Bump)
    \* Config
    action_duration_ms_default,  \* Config.action_duration_ms_default
    decision_hz,     \* Config.decision_hz
    \* the pacing of AgentLoop.run, in time units (see UnitsPerSecond)
    elapsed,         \* local `elapsed` of run: duration of the pass's tick
    sleep_time,      \* local `sleep_time` of run
    gap,             \* time between the starts of the two latest ticks
    msgs,            \* messages the bridge has sent so far
    \* AgentLoop
    pc,              \* position of AgentLoop.run
    running,         \* AgentLoop.running
    use_mod_frames,  \* AgentLoop.use_mod_frames (config.capture_mode == "mod")
    feed,            \* what the bridge sends in this run, one of Feeds
    a_latest_frame,  \* AgentLoop.latest_frame
    a_latest_state,  \* AgentLoop.latest_state
    stats,           \* AgentLoop.stats
    action,          \* the tick's local variable `action`
    sent,            \* the tick's send_action call: "none" before it, then its outcome
    \* BridgeClient
    ws,              \* BridgeClient.ws: None or Some(socket)
    orphan,          \* a connection opened by an earlier connect is still
                     \* open; BridgeClient.ws no longer refers to it
    connected,       \* BridgeClient.connected
    capabilities,    \* BridgeClient.capabilities
    latest_state,    \* BridgeClient.latest_state
    latest_frame,    \* BridgeClient.latest_frame
    latest_frame_seq,
    latest_frame_ts,
    callbacks,       \* which of _on_state/_on_ack/_on_frame callbacks are set
    \* the read task and the socket
    rl,              \* receive task: "none", "running", "done", "cancelled"
    rlExit,          \* how receive_messages ended
    sock,            \* the peer connection: "absent", "open", "closed_ok",
                     \* "closed_err", "closed_local"
    inbox,           \* messages received by the socket, not yet iterated
    \* history
    tx,              \* actions put on the wire during the current tick
    wire,            \* the JSON texts written to the socket for them
    decoded,         \* what the peer decoded from the text it received
    response,        \* how the request of the policy call under study ended
    \* BenchmarkRunner
    metrics,         \* BenchmarkRunner.metrics: end_to_end_ms of each sample
    summary,         \* the statistics _analyze_results computed, if any
    acceptance,      \* what _check_acceptance_criteria printed
    bench_log,       \* the records (lines) of logs/bench.jsonl
    total_ms,        \* AgentLoop.stats: total_capture_ms + total_inference_ms
                     \* + total_send_ms
    live_hz,         \* the "Effective Hz" row of the live statistics table
    b_latest_state,  \* BenchmarkRunner.latest_state
    acks_received,   \* BenchmarkRunner.acks_received
    samples,         \* BenchmarkRunner.metrics: the samples with all their keys
    timing,          \* the stage times of the benchmark iteration in progress
    clock,           \* time since the benchmark loop started, in time units
    inferOutcome,    \* the current tick's get_action: "none" before it returns,
                     \* "failed" if it took an except branch, else "ok"
    tickOpen,        \* a tick has started and not yet reached its end
    lastKind,        \* what the read loop's latest pass did with its
                     \* message, while the read task still has the event loop
    invoked,         \* the callbacks that pass invoked, in order, each with
                     \* what the client's cache held when it was called
    lastFrame,       \* the bytes of the valid frame message dispatched last
    reordered,       \* that frame's sequence number was below the cached one
    stopReq,         \* "no", or when stop() was called
    tickAfterStop,   \* a tick started after stop() was called
    interrupted,     \* the loop was left by an interrupt
    txWhileClosed,   \* something was transmitted while connected was false
    cleanupLog       \* cleanup steps done, in order

\* The statistics are only displayed, never read by the control flow.  A
\* run that counts them stops starting ticks at MaxTicks; a run that leaves
\* them at zero can tick forever in a finite state space.
Bump(n) == IF counted THEN n + 1 ELSE n

vars == <<counted, action_duration_ms_default, decision_hz, elapsed,
          sleep_time, gap, orphan, msgs, pc, running, use_mod_frames, feed, a_latest_frame, a_latest_state,
          stats, action, sent, ws, connected, capabilities,
          latest_state, latest_frame, latest_frame_seq, latest_frame_ts,
          callbacks, rl, rlExit, sock, inbox, tx, inferOutcome, tickOpen,
          lastKind, invoked, lastFrame, reordered, stopReq, tickAfterStop, interrupted,
          txWhileClosed, cleanupLog, wire, decoded, response, metrics, summary,
          acceptance, bench_log, total_ms, live_hz, b_latest_state,
          acks_received, samples, timing, clock>>

cfgVars == <<counted, use_mod_frames, feed, action_duration_ms_default,
             decision_hz>>
paceVars == <<elapsed, sleep_time, gap>>
agentCache == <<a_latest_frame, a_latest_state>>
cacheVars == <<latest_state, latest_frame, latest_frame_seq, latest_frame_ts>>
connVars == <<ws, orphan, connected, capabilities, sock, inbox>>
readVars == <<rl, rlExit>>
tickVars == <<action, sent, tx, wire, inferOutcome, tickOpen>>
runVars == <<b_latest_state, acks_received, samples, timing, clock>>
benchVars == <<metrics, summary, acceptance, bench_log, total_ms, live_hz,
               runVars>>
frameHist == <<lastFrame, reordered>>
readHist == <<lastKind, invoked, lastFrame, reordered>>
stopHist == <<stopReq, tickAfterStop, interrupted>>

\* ------------------------------------------------------------ wire format
\* An inbound websocket message: binary (bytes) or text (str).  A text
\* message is described by what json.loads and pydantic make of it.
BinMsg(d) ==
    [bin |-> TRUE, data |-> d, json |-> "none", type |-> "none",
     valid |-> FALSE, applied |-> FALSE, sid |-> 0]
TextMsg(j, t, v, a, s) ==
    [bin |-> FALSE, data |-> <<>>, json |-> j, type |-> t,
     valid |-> v, applied |-> a, sid |-> s]

\* type 1, seq 2, ts 5, one payload byte
FrameA == <<1, 0, 0, 0, 2, 0, 0, 0, 5, 10>>
\* type 1, seq 1 (lower than FrameA's), ts 9, two payload bytes
FrameB == <<1, 0, 0, 0, 1, 0, 0, 0, 9, 11, 12>>
\* type 1, seq 256, ts 1, exactly 9 bytes: empty payload
FrameE == <<1, 0, 0, 1, 0, 0, 0, 0, 1>>
\* type 1 and 7 more bytes: one byte short of the header
ShortBin == <<1, 0, 0, 0, 7, 0, 0, 0>>
EmptyBin == <<>>
\* 10 bytes with a type tag other than MSG_TYPE_FRAME
OtherTag == <<2, 0, 0, 0, 3, 0, 0, 0, 4, 13>>

BinaryMessages ==
    {BinMsg(d) : d \in {FrameA, FrameB, FrameE, ShortBin, EmptyBin, OtherTag}}
\* the bytes of the valid frame messages
Frames == {FrameA, FrameB, FrameE}
TextMessages ==
    { TextMsg("invalid", "none", FALSE, FALSE, 0),   \* not JSON
      TextMsg("array", "none", FALSE, FALSE, 0),     \* JSON, not an object
      TextMsg("object", "hello", TRUE, FALSE, 0),    \* a type not handled
      TextMsg("object", "ack", TRUE, TRUE, 0),       \* ack, applied
      TextMsg("object", "ack", FALSE, FALSE, 0),     \* ack failing validation
      TextMsg("object", "state", TRUE, FALSE, 1),    \* state sample 1
      TextMsg("object", "state", FALSE, FALSE, 0) }  \* state failing validation
\* a frame, two state samples and an ack that was not applied
MixedMessages ==
    { BinMsg(FrameA),
      TextMsg("object", "state", TRUE, FALSE, 1),
      TextMsg("object", "state", TRUE, FALSE, 2),
      TextMsg("object", "ack", TRUE, FALSE, 0) }
\* What the bridge sends in a run: binary messages, text messages, or
\* frames with state samples.
Feeds == {"binary", "text", "mixed"}
Alphabet(f) ==
    IF f = "binary" THEN BinaryMessages
    ELSE IF f = "text" THEN TextMessages
    ELSE MixedMessages

\* Variant: the four bytes are read least significant first.
unpack_u32_le(b) == ((b[4] * 256 + b[3]) * 256 + b[2]) * 256 + b[1]

\* struct.unpack(">I", b): four bytes, most significant first
unpack_u32_be(b) == ((b[1] * 256 + b[2]) * 256 + b[3]) * 256 + b[4]

NoEffect ==
    [kind |-> "none", frame |-> <<>>, seq |-> 0, ts |-> 0,
     applied |-> FALSE, sid |-> 0]

\* A frame message: at least the 9 header bytes, tagged MSG_TYPE_FRAME
ValidFrame(m) ==
    m.bin /\ Len(m.data) >= MIN_BINARY_LEN /\ m.data[1] = MSG_TYPE_FRAME

\* Variant: a frame replaces the cached one only when its sequence number
\* is not lower.
_handle_binary_message_newest(data) ==
    IF Len(data) < MIN_BINARY_LEN
    THEN [NoEffect EXCEPT !.kind = "short"]
    ELSE IF data[1] = MSG_TYPE_FRAME
            /\ unpack_u32_be(SubSeq(data, 2, 5)) >= latest_frame_seq
         THEN [NoEffect EXCEPT !.kind = "frame",
                  !.seq = unpack_u32_be(SubSeq(data, 2, 5)),
                  !.ts = unpack_u32_be(SubSeq(data, 6, 9)),
                  !.frame = SubSeq(data, 10, Len(data))]
         ELSE [NoEffect EXCEPT !.kind = "ignored"]

\* Variant: no length check, so data[0] raises on the empty message and
\* struct.unpack raises on a truncated header.
_handle_binary_message_unchecked(data) ==
    IF data = <<>>
    THEN [NoEffect EXCEPT !.kind = "raise"]
    ELSE IF data[1] = MSG_TYPE_FRAME
         THEN IF Len(data) < MIN_BINARY_LEN
              THEN [NoEffect EXCEPT !.kind = "raise"]
              ELSE [NoEffect EXCEPT !.kind = "frame",
                       !.seq = unpack_u32_be(SubSeq(data, 2, 5)),
                       !.ts = unpack_u32_be(SubSeq(data, 6, 9)),
                       !.frame = SubSeq(data, 10, Len(data))]
         ELSE [NoEffect EXCEPT !.kind = "ignored"]

\* BridgeClient._handle_binary_message, up to the callback
_handle_binary_message(data) ==
    IF Len(data) < MIN_BINARY_LEN
    THEN [NoEffect EXCEPT !.kind = "short"]
    ELSE IF data[1] = MSG_TYPE_FRAME
         THEN [NoEffect EXCEPT !.kind = "frame",
                  !.seq = unpack_u32_be(SubSeq(data, 2, 5)),
                  !.ts = unpack_u32_be(SubSeq(data, 6, 9)),
                  !.frame = SubSeq(data, 10, Len(data))]
         ELSE [NoEffect EXCEPT !.kind = "ignored"]

\* Variant: no try/except around the parsing and the validation.
_handle_message_unguarded(m) ==
    IF m.json = "invalid" THEN [NoEffect EXCEPT !.kind = "raise"]
    ELSE IF m.json # "object" THEN [NoEffect EXCEPT !.kind = "raise"]
    ELSE IF m.type = "ack"
         THEN IF m.valid
              THEN [NoEffect EXCEPT !.kind = "ack", !.applied = m.applied]
              ELSE [NoEffect EXCEPT !.kind = "raise"]
    ELSE IF m.type = "state"
         THEN IF m.valid
              THEN [NoEffect EXCEPT !.kind = "state", !.sid = m.sid]
              ELSE [NoEffect EXCEPT !.kind = "raise"]
    ELSE [NoEffect EXCEPT !.kind = "ignored"]

\* BridgeClient._handle_message, up to the callback; every exception raised
\* inside is caught and logged there
_handle_message(m) ==
    IF m.json = "invalid" THEN [NoEffect EXCEPT !.kind = "logged"]
    ELSE IF m.json # "object" THEN [NoEffect EXCEPT !.kind = "logged"]
    ELSE IF m.type = "ack"
         THEN IF m.valid
              THEN [NoEffect EXCEPT !.kind = "ack", !.applied = m.applied]
              ELSE [NoEffect EXCEPT !.kind = "logged"]
    ELSE IF m.type = "state"
         THEN IF m.valid
              THEN [NoEffect EXCEPT !.kind = "state", !.sid = m.sid]
              ELSE [NoEffect EXCEPT !.kind = "logged"]
    ELSE [NoEffect EXCEPT !.kind = "ignored"]

\* Variant: the callback runs before the sample is stored in the client.
invocations_before_store(e, before, after) ==
    IF e.kind \in {"frame", "state", "ack"} /\ e.kind \in callbacks
    THEN <<[kind |-> e.kind, cached |-> before]>>
    ELSE <<>>

\* The callbacks a handler invokes for what it made of the message
\* (bridge_client.py:127-128, 138-139, 144-145), given what the client's
\* cache of that kind holds before and after the handler's assignment
invocations(e, before, after) ==
    IF e.kind \in {"frame", "state", "ack"} /\ e.kind \in callbacks
    THEN <<[kind |-> e.kind, cached |-> after]>>
    ELSE <<>>

\* what receive_messages does with one message
handle(m) == IF m.bin THEN _handle_binary_message(m.data) ELSE _handle_message(m)


\* ----------------------------------------------------------------- policy
\* JSON values of an inference response
Num(n) == [t |-> "num", n |-> n, b |-> FALSE]
Bool(b) == [t |-> "bool", n |-> 0, b |-> b]
Str == [t |-> "str", n |-> 0, b |-> FALSE]   \* a non-empty, non-numeric string

\* dict.get(k, default)
Get(d, k, default) == IF k \in DOMAIN d THEN d[k] ELSE default
\* float(v) and int(v) raise on a non-numeric string
Raises(v) == v.t = "str"
ToNum(v) == IF v.t = "bool" THEN (IF v.b THEN 1 ELSE 0) ELSE v.n
\* bool(v)
ToBool(v) == IF v.t = "bool" THEN v.b ELSE IF v.t = "num" THEN v.n # 0 ELSE TRUE

NumFields == {"forward", "strafe", "yaw", "pitch", "duration_ms"}

\* bring x into lo..hi
Clamp(x, lo, hi) == IF x < lo THEN lo ELSE IF x > hi THEN hi ELSE x

\* Variant: the fields are stored as given.
ActionMessage_unvalidated(fw, st, yw, pt, jp, at, us, sn, sp, du) ==
    [forward |-> fw, strafe |-> st, yaw |-> yw, pitch |-> pt, jump |-> jp,
     attack |-> at, use |-> us, sneak |-> sn, sprint |-> sp, duration_ms |-> du]

\* The action record.  Its class is not among the sources; it is the
\* ActionCommand of the design: movement axes bounded to [-1, 1], hold
\* duration bounded to [20, 2000] ms, out-of-range values resolved by
\* clamping.
ActionMessage(fw, st, yw, pt, jp, at, us, sn, sp, du) ==
    [forward |-> Clamp(fw, -1, 1), strafe |-> Clamp(st, -1, 1),
     yaw |-> yw, pitch |-> pt, jump |-> jp, attack |-> at, use |-> us,
     sneak |-> sn, sprint |-> sp, duration_ms |-> Clamp(du, 20, 2000)]

\* The fields of an action, by the kind of their value
ActionNumFields == {"forward", "strafe", "yaw", "pitch", "duration_ms"}
ActionBoolFields == {"jump", "attack", "use", "sneak", "sprint"}

\* Variant: the yaw is written normalised to 0..359 degrees.
model_dump_json_normalising(a) ==
    [forward |-> Num(a.forward), strafe |-> Num(a.strafe),
     yaw |-> Num(a.yaw % 360), pitch |-> Num(a.pitch),
     jump |-> Bool(a.jump), attack |-> Bool(a.attack), use |-> Bool(a.use),
     sneak |-> Bool(a.sneak), sprint |-> Bool(a.sprint),
     duration_ms |-> Num(a.duration_ms)]

\* ActionMessage.model_dump_json (bridge_client.py:81): the JSON object
\* with every field of the action present, the numbers as JSON numbers and
\* the intents as JSON booleans.
model_dump_json(a) ==
    [forward |-> Num(a.forward), strafe |-> Num(a.strafe),
     yaw |-> Num(a.yaw), pitch |-> Num(a.pitch),
     jump |-> Bool(a.jump), attack |-> Bool(a.attack), use |-> Bool(a.use),
     sneak |-> Bool(a.sneak), sprint |-> Bool(a.sprint),
     duration_ms |-> Num(a.duration_ms)]

\* The decoding of such a text on the receiving side: a decode error (None)
\* when a field is absent or of the wrong JSON type, else the action built
\* from the values.
model_validate_json(j) ==
    IF /\ DOMAIN j = ActionNumFields \cup ActionBoolFields
       /\ \A k \in ActionNumFields : j[k].t = "num"
       /\ \A k \in ActionBoolFields : j[k].t = "bool"
    THEN Some(ActionMessage(j.forward.n, j.strafe.n, j.yaw.n, j.pitch.n,
                            j.jump.b, j.attack.b, j.use.b, j.sneak.b,
                            j.sprint.b, j.duration_ms.n))
    ELSE None

\* VLMPolicy._get_default_action
_get_default_action ==
    ActionMessage(0, 0, 0, 0, FALSE, FALSE, FALSE, FALSE, FALSE,
                  action_duration_ms_default)

\* VLMPolicy._dict_to_action: raises when a conversion raises
_dict_to_action_raises(d) ==
    \E k \in NumFields : k \in DOMAIN d /\ Raises(d[k])
\* Variant: a missing duration_ms becomes the built-in default, not the
\* configured one.
_dict_to_action_builtin_duration(d) ==
    ActionMessage(
        ToNum(Get(d, "forward", Num(0))),
        ToNum(Get(d, "strafe", Num(0))),
        ToNum(Get(d, "yaw", Num(0))),
        ToNum(Get(d, "pitch", Num(0))),
        ToBool(Get(d, "jump", Bool(FALSE))),
        ToBool(Get(d, "attack", Bool(FALSE))),
        ToBool(Get(d, "use", Bool(FALSE))),
        ToBool(Get(d, "sneak", Bool(FALSE))),
        ToBool(Get(d, "sprint", Bool(FALSE))),
        ToNum(Get(d, "duration_ms", Num(ACTION_DURATION_MS_DEFAULT))))

\* VLMPolicy._dict_to_action: the action built from the parsed content
_dict_to_action(d) ==
    ActionMessage(
        ToNum(Get(d, "forward", Num(0))),
        ToNum(Get(d, "strafe", Num(0))),
        ToNum(Get(d, "yaw", Num(0))),
        ToNum(Get(d, "pitch", Num(0))),
        ToBool(Get(d, "jump", Bool(FALSE))),
        ToBool(Get(d, "attack", Bool(FALSE))),
        ToBool(Get(d, "use", Bool(FALSE))),
        ToBool(Get(d, "sneak", Bool(FALSE))),
        ToBool(Get(d, "sprint", Bool(FALSE))),
        ToNum(Get(d, "duration_ms", Num(action_duration_ms_default))))

\* Inference responses whose content parsed to a dict
RespFull ==
    [forward |-> Num(1), strafe |-> Num(-1), yaw |-> Num(90), pitch |-> Num(0),
     jump |-> Bool(TRUE), attack |-> Bool(FALSE), use |-> Bool(FALSE),
     sneak |-> Bool(FALSE), sprint |-> Bool(TRUE), duration_ms |-> Num(200)]
RespPartial == [forward |-> Num(1)]
RespBadField == [forward |-> Str, duration_ms |-> Num(200)]
\* values outside the ranges of the action schema
RespOutOfRange ==
    [forward |-> Num(5), strafe |-> Num(-3), duration_ms |-> Num(5000)]
\* one value outside its range, the other fields given
RespOneOutOfRange ==
    [forward |-> Num(-7), strafe |-> Num(1), yaw |-> Num(-90),
     pitch |-> Num(45), jump |-> Bool(FALSE), attack |-> Bool(TRUE),
     use |-> Bool(TRUE), sneak |-> Bool(TRUE), sprint |-> Bool(FALSE),
     duration_ms |-> Num(300)]
\* no duration_ms, a duration that is too short
RespNoDuration ==
    [forward |-> Num(0), strafe |-> Num(1), yaw |-> Num(180),
     pitch |-> Num(-90), jump |-> Bool(TRUE), attack |-> Bool(TRUE),
     use |-> Bool(FALSE), sneak |-> Bool(FALSE), sprint |-> Bool(FALSE)]
RespShort == [forward |-> Num(1), duration_ms |-> Num(1)]
Responses == {RespFull, RespPartial, RespBadField}

\* How the request of get_action can end: the post raises, it times out,
\* raise_for_status raises, the body or the content is not the JSON
\* expected, or the content parses to a dict.
InferFailures == {"raise", "timeout", "http_error", "bad_content"}
InferResults ==
    {<<o, RespFull>> : o \in InferFailures} \cup {<<"content", d>> : d \in Responses}

\* Variant: the conversion of the parsed content is not guarded.
get_action_unguarded(o, d) ==
    IF o = "content" THEN _dict_to_action(d) ELSE _get_default_action

\* VLMPolicy.get_action: the action it returns
get_action(o, d) ==
    IF o = "content" /\ ~_dict_to_action_raises(d)
    THEN _dict_to_action(d)
    ELSE _get_default_action
\* whether get_action took one of its except branches
InferFailed(o, d) == o # "content" \/ _dict_to_action_raises(d)


\* ------------------------------------------------------------------ Init
\* BridgeClient.capabilities, a dict, as the set of its (key, value) pairs:
\* {} after __init__ (bridge_client.py:29)
NoCapabilities == {}
\* the dict connect installs (bridge_client.py:53-57)
DefaultCapabilities ==
    {<<"supports_mouse", FALSE>>,
     <<"supports_inventory", FALSE>>,
     <<"supports_chat_cmd", FALSE>>}

ZeroStats ==
    [iterations |-> 0, actions_sent |-> 0, actions_acked |-> 0,
     errors |-> 0, frames_received |-> 0]

InitState ==
    /\ msgs = 0
    /\ running = FALSE
    /\ use_mod_frames \in BOOLEAN
    /\ feed \in Feeds
    /\ a_latest_frame = None
    /\ a_latest_state = None
    /\ stats = ZeroStats
    /\ action = None
    /\ sent = "none"
    /\ ws = None
    /\ orphan = FALSE
    /\ connected = FALSE
    /\ capabilities = NoCapabilities
    /\ latest_state = None
    /\ latest_frame = None
    /\ latest_frame_seq = 0
    /\ latest_frame_ts = 0
    /\ callbacks = {}
    /\ rl = "none"
    /\ rlExit = "none"
    /\ sock = "absent"
    /\ inbox = <<>>
    /\ tx = <<>>
    /\ wire = <<>>
    /\ decoded = None
    /\ response = None
    /\ metrics = <<>>
    /\ summary = None
    /\ acceptance = "none"
    /\ total_ms = 0
    /\ live_hz = None
    /\ b_latest_state = None
    /\ acks_received = 0
    /\ samples = <<>>
    /\ timing = None
    /\ clock = 0
    /\ inferOutcome = "none"
    /\ tickOpen = FALSE
    /\ lastKind = "none"
    /\ invoked = <<>>
    /\ lastFrame = None
    /\ reordered = FALSE
    /\ stopReq = "no"
    /\ tickAfterStop = FALSE
    /\ interrupted = FALSE
    /\ txWhileClosed = FALSE
    /\ cleanupLog = <<>>

\* the configuration of config.py:37 and 40 with no environment setting
DefaultConfig ==
    /\ action_duration_ms_default = ACTION_DURATION_MS_DEFAULT
    /\ decision_hz = DECISION_HZ
\* no pass of the loop has been timed
NotTimed == elapsed = 0 /\ sleep_time = 0 /\ gap = None
\* logs/bench.jsonl does not exist yet
NoLog == bench_log = <<>>

Init ==
    counted = TRUE /\ pc = "idle" /\ DefaultConfig /\ NotTimed /\ NoLog /\ InitState
InitUncounted ==
    counted = FALSE /\ pc = "idle" /\ DefaultConfig /\ NotTimed /\ NoLog
    /\ InitState

\* positions of AgentLoop.run
TickPcs == {"infer", "send", "send_wait", "send_ret"}
LoopPcs == {"loop_head", "sleep"} \cup TickPcs
CleanupPcs == {"cleanup", "close", "release"}
EndPcs == {"stopped", "returned", "crashed"}

\* ---------------------------------------------------------- BridgeClient
\* Variant: the capability set is the one a Capabilities() of protocol.py
\* has by default.
connect_ok_declared_capabilities ==
    /\ ws' = Some(1)
    /\ orphan' = (orphan \/ sock = "open")
    /\ connected' = TRUE
    /\ capabilities' = {<<"supports_mouse", TRUE>>,
                        <<"supports_inventory", TRUE>>,
                        <<"supports_chat_cmd", FALSE>>}
    /\ sock' = "open"
    /\ inbox' = <<>>

\* BridgeClient.connect, websockets.connect succeeding
connect_ok ==
    /\ ws' = Some(1)
    /\ orphan' = (orphan \/ sock = "open")
    /\ connected' = TRUE
    /\ capabilities' = DefaultCapabilities
    /\ sock' = "open"
    /\ inbox' = <<>>

\* BridgeClient.connect, websockets.connect raising: ConnectionError
connect_fail ==
    /\ connected' = FALSE
    /\ UNCHANGED <<ws, orphan, capabilities, sock, inbox>>

\* Variant: the socket is closed and the connected flag left as it was.
close_keeps_flag ==
    IF ws # None
    THEN /\ sock' = "closed_local"
         /\ inbox' = <<>>
         /\ UNCHANGED connected
    ELSE UNCHANGED <<sock, inbox, connected>>

\* BridgeClient.close; a closed socket delivers nothing more
close ==
    IF ws # None
    THEN /\ sock' = "closed_local"
         /\ inbox' = <<>>
         /\ connected' = FALSE
    ELSE UNCHANGED <<sock, inbox, connected>>

\* Variant: only the socket reference is tested, not the connected flag.
send_action_ws_only ==
    IF ws = None THEN "refused"
    ELSE IF sock = "open" THEN "sent"
    ELSE "failed"

\* BridgeClient.send_action: "refused" is the early return False, "sent" a
\* completed ws.send, "failed" a ws.send that raised (caught, False)
send_action ==
    IF ~connected \/ ws = None THEN "refused"
    ELSE IF sock = "open" THEN "sent"
    ELSE "failed"

\* BridgeClient.configure_frames: "skipped" is the early return, "raised" a
\* ws.send that raised (nothing catches it)
configure_frames ==
    IF ~connected \/ ws = None THEN "skipped"
    ELSE IF sock = "open" THEN "sent"
    ELSE "raised"


\* -------------------------------------------------------------- AgentLoop
\* Variant: the frame callback is never registered.
Run_without_frame_callback ==
    /\ pc = "idle"
    /\ running' = TRUE
    /\ callbacks' = {"state", "ack"}
    /\ pc' = "connect"
    /\ UNCHANGED <<msgs, cfgVars, decoded, response, benchVars, paceVars, agentCache, stats, tickVars, cacheVars,
                   connVars, readVars, readHist, stopHist, txWhileClosed,
                   cleanupLog>>

\* AgentLoop.run up to the connect call (loop.py:59-65)
Run ==
    /\ pc = "idle"
    /\ running' = TRUE
    /\ callbacks' = {"state", "ack"} \cup (IF use_mod_frames THEN {"frame"} ELSE {})
    /\ pc' = "connect"
    /\ UNCHANGED <<msgs, cfgVars, decoded, response, benchVars, paceVars, agentCache, stats, tickVars, cacheVars,
                   connVars, readVars, readHist, stopHist, txWhileClosed,
                   cleanupLog>>

\* loop.py:69-71, connect succeeded
ConnectOK ==
    /\ pc = "connect"
    /\ connect_ok
    /\ pc' = IF use_mod_frames THEN "configure" ELSE "create_task"
    /\ UNCHANGED <<running, msgs, cfgVars, decoded, response, benchVars, paceVars, agentCache, stats, tickVars,
                   cacheVars, callbacks, readVars, readHist, stopHist,
                   txWhileClosed, cleanupLog>>

\* loop.py:72-74, connect raised: reported, run returns
ConnectFail ==
    /\ pc = "connect"
    /\ connect_fail
    /\ pc' = "returned"
    /\ UNCHANGED <<running, msgs, cfgVars, decoded, response, benchVars, paceVars, agentCache, stats, tickVars,
                   cacheVars, callbacks, readVars, readHist, stopHist,
                   txWhileClosed, cleanupLog>>

\* loop.py:77-86: an exception of configure_frames leaves run at once
ConfigureFrames ==
    /\ pc = "configure"
    /\ pc' = IF configure_frames = "raised" THEN "crashed" ELSE "create_task"
    /\ UNCHANGED <<running, msgs, cfgVars, decoded, response, benchVars, paceVars, agentCache, stats, tickVars,
                   cacheVars, connVars, callbacks, readVars, readHist,
                   stopHist, txWhileClosed, cleanupLog>>

\* loop.py:94, asyncio.create_task(self.bridge.receive_messages())
CreateTask ==
    /\ pc = "create_task"
    /\ rl' = IF ws = None THEN "done" ELSE "running"
    /\ rlExit' = IF ws = None THEN "no_socket" ELSE rlExit
    /\ pc' = "loop_head"
    /\ UNCHANGED <<running, msgs, cfgVars, decoded, response, benchVars, paceVars, agentCache, stats, tickVars,
                   cacheVars, connVars, callbacks, readHist, stopHist,
                   txWhileClosed, cleanupLog>>

\* loop.py:116-120 after a pass: sleep for what is left of the interval,
\* or go on at once when the pass used it up
AfterTick == {"sleep", "loop_head"}

\* loop.py:113, live.update(self._generate_stats_table()), which follows the
\* return of _run_iteration without a suspension.  With a state cached the
\* table reads latest_state.payload (loop.py:225), which StateMessage
\* (protocol.py:131-136) does not have: the AttributeError is raised outside
\* the try of _run_iteration and leaves the while loop through the finally
\* (loop.py:124).  Otherwise the pass goes on to `next`.
live_update(next) == IF a_latest_state # None THEN "cleanup" ELSE next

\* The start of _run_iteration (loop.py:137-165), which runs without a
\* suspension up to the get_action call.  `next` is where the pass goes,
\* `raised` whether the part ended in the except branch (loop.py:177-179).
TickBegin(next, raised) ==
    /\ pc = "loop_head"
    /\ running
    /\ counted => stats.iterations < MaxTicks
    /\ stats' = [stats EXCEPT !.iterations = Bump(@),
                              !.errors = IF raised THEN Bump(@) ELSE @]
    /\ pc' = next
    /\ tx' = <<>>
    /\ wire' = <<>>
    /\ sent' = "none"
    /\ inferOutcome' = "none"
    /\ action' = None
    /\ tickOpen' = (next = "infer")
    /\ tickAfterStop' = (tickAfterStop \/ stopReq # "no")
    /\ UNCHANGED <<running, msgs, cfgVars, decoded, response, benchVars, paceVars, agentCache, cacheVars, connVars,
                   callbacks, readVars, readHist, stopReq, interrupted,
                   txWhileClosed, cleanupLog>>

\* whether the tick has a frame to work on (loop.py:141-145)
HasFrame == ~use_mod_frames \/ a_latest_frame # None

\* Variant: the tick goes on to the inference call without a frame.
TickSkip_infers == ~HasFrame /\ TickBegin("infer", FALSE)

\* loop.py:143-145: mod frames in use and none received yet
TickSkip ==
    ~HasFrame /\ \E next \in AfterTick : TickBegin(live_update(next), FALSE)

\* loop.py:154-156: the screen capture raises
TickCaptureError ==
    ~use_mod_frames /\ \E next \in AfterTick : TickBegin(live_update(next), TRUE)

\* loop.py:160-165: StateMessage (protocol.py:131-136) has no attribute
\* payload, so building state_dict from a cached state raises
TickStateError ==
    /\ HasFrame
    /\ a_latest_state # None
    /\ \E next \in AfterTick : TickBegin(live_update(next), TRUE)

\* loop.py:168: get_action is called
TickInfer == HasFrame /\ a_latest_state = None /\ TickBegin("infer", FALSE)

\* loop.py:168: get_action returns
InferReturn ==
    /\ pc = "infer"
    /\ \E r \in InferResults :
          /\ action' = Some(get_action(r[1], r[2]))
          /\ inferOutcome' = IF InferFailed(r[1], r[2]) THEN "failed" ELSE "ok"
    /\ pc' = "send"
    /\ UNCHANGED <<running, msgs, cfgVars, decoded, response, benchVars, paceVars, agentCache, stats, sent, tx, wire,
                   tickOpen, cacheVars, connVars, callbacks, readVars,
                   readHist, stopHist, txWhileClosed, cleanupLog>>

\* Variant: the action is written to the socket twice.
SendAction_resends ==
    /\ pc = "send"
    /\ sent' = send_action
    /\ tx' = IF sent' = "sent" THEN tx \o <<action[1], action[1]>> ELSE tx
    /\ wire' = IF sent' = "sent"
                THEN wire \o <<model_dump_json(action[1]), model_dump_json(action[1])>>
                ELSE wire
    /\ txWhileClosed' = (txWhileClosed \/ (sent' = "sent" /\ ~connected))
    /\ \E yields \in BOOLEAN :
          pc' = IF yields /\ sent' \in {"sent", "failed"} THEN "send_wait"
                ELSE "send_ret"
    /\ UNCHANGED <<running, msgs, cfgVars, decoded, response, benchVars, paceVars, agentCache, stats, action,
                   inferOutcome, tickOpen, cacheVars, connVars, callbacks,
                   readVars, readHist, stopHist, cleanupLog>>

\* loop.py:172 with bridge_client.py:75-86: send_action up to the point
\* where ws.send has written or raised; a ws.send that has to drain
\* suspends the task ("send_wait")
SendAction ==
    /\ pc = "send"
    /\ sent' = send_action
    /\ tx' = IF sent' = "sent" THEN Append(tx, action[1]) ELSE tx
    /\ wire' = IF sent' = "sent"
                THEN Append(wire, model_dump_json(action[1])) ELSE wire
    /\ txWhileClosed' = (txWhileClosed \/ (sent' = "sent" /\ ~connected))
    /\ \E yields \in BOOLEAN :
          pc' = IF yields /\ sent' \in {"sent", "failed"} THEN "send_wait"
                ELSE "send_ret"
    /\ UNCHANGED <<running, msgs, cfgVars, decoded, response, benchVars, paceVars, agentCache, stats, action,
                   inferOutcome, tickOpen, cacheVars, connVars, callbacks,
                   readVars, readHist, stopHist, cleanupLog>>

\* Variant: every send_action call that returned is counted as sent.
SendReturn_counts_every_send ==
    /\ pc \in {"send_wait", "send_ret"}
    /\ stats' = [stats EXCEPT !.actions_sent = Bump(@)]
    /\ \E next \in AfterTick : pc' = live_update(next)
    /\ tickOpen' = FALSE
    /\ action' = None
    /\ sent' = "none"
    /\ tx' = <<>>
    /\ wire' = <<>>
    /\ inferOutcome' = "none"
    /\ lastKind' = "none"
    /\ invoked' = <<>>
    /\ UNCHANGED <<running, msgs, cfgVars, decoded, response, benchVars, paceVars, agentCache, cacheVars, connVars, callbacks, readVars,
                   frameHist, stopHist, txWhileClosed, cleanupLog>>

\* loop.py:173-179 and 113-120: send_action has returned (or raised), the
\* tick ends and the display is updated
SendReturn ==
    /\ pc \in {"send_wait", "send_ret"}
    /\ stats' = [stats EXCEPT
                   !.actions_sent = IF sent = "sent" THEN Bump(@) ELSE @,
                   !.errors = IF sent = "raised" THEN Bump(@) ELSE @]
    /\ \E next \in AfterTick : pc' = live_update(next)
    /\ tickOpen' = FALSE
    /\ action' = None
    /\ sent' = "none"
    /\ tx' = <<>>
    /\ wire' = <<>>
    /\ inferOutcome' = "none"
    /\ lastKind' = "none"
    /\ invoked' = <<>>
    /\ UNCHANGED <<running, msgs, cfgVars, decoded, response, benchVars, paceVars, agentCache, cacheVars, connVars, callbacks, readVars,
                   frameHist, stopHist, txWhileClosed, cleanupLog>>

\* loop.py:120: asyncio.sleep returns
SleepDone ==
    /\ pc = "sleep"
    /\ pc' = "loop_head"
    /\ lastKind' = "none"
    /\ invoked' = <<>>
    /\ UNCHANGED <<running, msgs, cfgVars, decoded, response, benchVars, paceVars, agentCache, stats, tickVars,
                   cacheVars, connVars, callbacks, readVars, frameHist,
                   stopHist, txWhileClosed, cleanupLog>>

\* loop.py:107: the while condition is false
ExitLoop ==
    /\ pc = "loop_head"
    /\ ~running
    /\ pc' = "cleanup"
    /\ UNCHANGED <<running, msgs, cfgVars, decoded, response, benchVars, paceVars, agentCache, stats, tickVars,
                   cacheVars, connVars, callbacks, readVars, readHist,
                   stopHist, txWhileClosed, cleanupLog>>

\* loop.py:122-124: KeyboardInterrupt or cancellation inside the try; no
\* except of _run_iteration or get_action catches it
Interrupt ==
    /\ pc \in LoopPcs
    /\ ~interrupted
    /\ interrupted' = TRUE
    /\ pc' = "cleanup"
    /\ action' = None
    /\ sent' = "none"
    /\ tx' = <<>>
    /\ wire' = <<>>
    /\ inferOutcome' = "none"
    /\ lastKind' = "none"
    /\ invoked' = <<>>
    /\ UNCHANGED <<running, msgs, cfgVars, decoded, response, benchVars, paceVars, agentCache, stats, tickOpen,
                   cacheVars, connVars, callbacks, readVars, frameHist,
                   stopReq, tickAfterStop, txWhileClosed, cleanupLog>>

\* Variant: the read task is not cancelled.
CancelReceive_omitted ==
    /\ pc = "cleanup"
    /\ running' = FALSE
    /\ cleanupLog' = Append(cleanupLog, "cancel_read")
    /\ pc' = "close"
    /\ UNCHANGED <<msgs, cfgVars, decoded, response, benchVars, paceVars, agentCache, stats, tickVars, cacheVars,
                   connVars, callbacks, readVars, readHist, stopHist,
                   txWhileClosed>>

\* loop.py:125-126: running = False; receive_task.cancel()
CancelReceive ==
    /\ pc = "cleanup"
    /\ running' = FALSE
    /\ rl' = IF rl = "running" THEN "cancelled" ELSE rl
    /\ rlExit' = IF rl = "running" THEN "cancelled" ELSE rlExit
    /\ cleanupLog' = Append(cleanupLog, "cancel_read")
    /\ pc' = "close"
    /\ UNCHANGED <<msgs, cfgVars, decoded, response, benchVars, paceVars, agentCache, stats, tickVars, cacheVars,
                   connVars, callbacks, readHist, stopHist, txWhileClosed>>

\* loop.py:127: await self.bridge.close()
CloseBridge ==
    /\ pc = "close"
    /\ close
    /\ cleanupLog' = Append(cleanupLog, "close_conn")
    /\ pc' = "release"
    /\ UNCHANGED <<running, msgs, cfgVars, decoded, response, benchVars, paceVars, agentCache, stats, tickVars,
                   cacheVars, ws, orphan, capabilities, callbacks,
                   readVars,
                   readHist, stopHist, txWhileClosed>>

\* loop.py:128-133: capture.close() when there is a capture, policy.close();
\* then the exception that left the loop goes on, or _print_final_stats
\* builds the table once more: either way run raises exactly when a state
\* is cached, and returns otherwise
Release ==
    /\ pc = "release"
    /\ cleanupLog' = cleanupLog \o
                       (IF use_mod_frames THEN <<>> ELSE <<"release_capture">>)
                       \o <<"release_policy">>
    /\ pc' = IF a_latest_state # None THEN "crashed" ELSE "stopped"
    /\ UNCHANGED <<running, msgs, cfgVars, decoded, response, benchVars, paceVars, agentCache, stats, tickVars,
                   cacheVars, connVars, callbacks, readVars, readHist,
                   stopHist, txWhileClosed>>

\* Variant: stop abandons the tick in progress.
Stop_abandons ==
    /\ pc \notin CleanupPcs \cup EndPcs
    /\ stopReq = "no"
    /\ running' = FALSE
    /\ stopReq' = IF pc \in TickPcs THEN "mid_tick"
                   ELSE IF pc = "idle" THEN "before_run" ELSE "between_ticks"
    /\ pc' = IF pc \in TickPcs THEN "cleanup" ELSE pc
    /\ UNCHANGED <<msgs, cfgVars, decoded, response, benchVars, paceVars, agentCache, stats, tickVars, cacheVars,
                   connVars, callbacks, readVars, readHist, tickAfterStop,
                   interrupted, txWhileClosed, cleanupLog>>

\* AgentLoop.stop (loop.py:238-240), called from outside the run
Stop ==
    /\ pc \notin CleanupPcs \cup EndPcs
    /\ stopReq = "no"
    /\ running' = FALSE
    /\ stopReq' = IF pc \in TickPcs THEN "mid_tick"
                   ELSE IF pc = "idle" THEN "before_run" ELSE "between_ticks"
    /\ UNCHANGED <<pc, msgs, cfgVars, decoded, response, benchVars, paceVars, agentCache, stats, tickVars, cacheVars,
                   connVars, callbacks, readVars, readHist, tickAfterStop,
                   interrupted, txWhileClosed, cleanupLog>>


\* ------------------------------------------------------------ read task
\* The read task gets the event loop only while run is suspended in an
\* await that yields: the sleep, a send that drains, the close handshake.
\* Variant: get_action is called directly, so the inference is no await.
BenchAwaits_blocking_inference == {"bench_send_wait", "bench_sleep"}

\* The awaits of BenchmarkRunner._run_iteration and run that yield:
\* asyncio.to_thread (benchmark.py:109), a send that drains (117) and
\* asyncio.sleep (83)
BenchAwaits == {"bench_infer", "bench_send_wait", "bench_sleep"}

CanRead ==
    rl = "running"
    /\ pc \in {"sleep", "send_wait", "close", "api"} \cup BenchAwaits

\* One pass of the async for of receive_messages (bridge_client.py:99-103)
\* with the handler and the AgentLoop callback it invokes (loop.py:181-194;
\* latest_ack is written there and read nowhere, it is not kept).  An
\* exception leaving a handler ends the read loop (bridge_client.py:107-109).
Dispatch ==
    /\ CanRead
    /\ inbox # <<>>
    /\ LET m == Head(inbox)
           e == handle(m)
           before == IF e.kind = "frame" THEN latest_frame
                     ELSE IF e.kind = "state" THEN latest_state ELSE None
           after == IF e.kind = "frame" THEN Some(e.frame)
                    ELSE IF e.kind = "state" THEN Some(e.sid) ELSE None
           calls == invocations(e, before, after)
           cb == IF calls # <<>> THEN calls[1].kind ELSE "none"
       IN  /\ inbox' = Tail(inbox)
           /\ lastKind' = e.kind
           /\ invoked' = calls
           /\ latest_frame' = IF e.kind = "frame" THEN Some(e.frame) ELSE latest_frame
           /\ latest_frame_seq' = IF e.kind = "frame" THEN e.seq ELSE latest_frame_seq
           /\ latest_frame_ts' = IF e.kind = "frame" THEN e.ts ELSE latest_frame_ts
           /\ latest_state' = IF e.kind = "state" THEN Some(e.sid) ELSE latest_state
           /\ lastFrame' = IF ValidFrame(m) THEN Some(m.data) ELSE lastFrame
           /\ reordered' = IF ValidFrame(m)
                           THEN /\ lastFrame # None
                                /\ unpack_u32_be(SubSeq(m.data, 2, 5)) <
                                     unpack_u32_be(SubSeq(lastFrame[1], 2, 5))
                           ELSE reordered
           /\ a_latest_frame' = IF cb = "frame" THEN Some(e.frame) ELSE a_latest_frame
           /\ a_latest_state' = IF cb = "state" THEN Some(e.sid) ELSE a_latest_state
           /\ stats' = [stats EXCEPT
                  !.frames_received = IF cb = "frame" THEN Bump(@) ELSE @,
                  !.actions_acked = IF cb = "ack" /\ e.applied THEN Bump(@) ELSE @]
           /\ connected' = IF e.kind = "raise" THEN FALSE ELSE connected
           /\ rl' = IF e.kind = "raise" THEN "done" ELSE rl
           /\ rlExit' = IF e.kind = "raise" THEN "exception" ELSE rlExit
    /\ UNCHANGED <<pc, running, msgs, cfgVars, decoded, response, benchVars, paceVars, tickVars, ws, orphan,
                   capabilities,
                   sock, callbacks, stopHist, txWhileClosed, cleanupLog>>

\* Variant: the except branch leaves the connected flag alone.
RecvError_unmarked ==
    /\ CanRead
    /\ inbox = <<>>
    /\ sock = "closed_err"
    /\ rl' = "done"
    /\ rlExit' = "error"
    /\ UNCHANGED <<pc, running, msgs, cfgVars, decoded, response, benchVars, paceVars, agentCache, stats, tickVars,
                   cacheVars, connVars, callbacks, readHist, stopHist,
                   txWhileClosed, cleanupLog>>

\* bridge_client.py:104-109: the iteration raises (ConnectionClosed or any
\* other exception of the transport) once the buffered messages are read
RecvError ==
    /\ CanRead
    /\ inbox = <<>>
    /\ sock = "closed_err"
    /\ connected' = FALSE
    /\ rl' = "done"
    /\ rlExit' = "error"
    /\ UNCHANGED <<pc, running, msgs, cfgVars, decoded, response, benchVars, paceVars, agentCache, stats, tickVars,
                   cacheVars, ws, orphan, capabilities, sock, inbox, callbacks,
                   readHist, stopHist, txWhileClosed, cleanupLog>>

\* bridge_client.py:99: the connection was closed normally, by the peer or
\* by close(); the async for just ends
RecvEnd ==
    /\ CanRead
    /\ inbox = <<>>
    /\ sock \in {"closed_ok", "closed_local"}
    /\ rl' = "done"
    /\ rlExit' = "end"
    /\ UNCHANGED <<pc, running, msgs, cfgVars, decoded, response, benchVars, paceVars, agentCache, stats, tickVars,
                   cacheVars, connVars, callbacks, readHist, stopHist,
                   txWhileClosed, cleanupLog>>

\* ------------------------------------------------------------- the peer
\* The bridge sends a message; the socket buffers it.
Arrive ==
    /\ sock = "open"
    /\ pc \notin CleanupPcs \cup EndPcs
    /\ msgs < MaxMsgs
    /\ msgs' = msgs + 1
    /\ \E m \in Alphabet(feed) : inbox' = Append(inbox, m)
    /\ UNCHANGED <<pc, running, cfgVars, decoded, response, benchVars, paceVars, agentCache, stats, tickVars,
                   cacheVars, ws, orphan, connected, capabilities, sock, callbacks,
                   readVars, readHist, stopHist, txWhileClosed, cleanupLog>>

\* The bridge closes the connection normally.
PeerClose ==
    /\ sock = "open"
    /\ pc \notin CleanupPcs \cup EndPcs
    /\ sock' = "closed_ok"
    /\ UNCHANGED <<pc, running, msgs, cfgVars, decoded, response, benchVars, paceVars, agentCache, stats, tickVars,
                   cacheVars, ws, orphan, connected, capabilities, inbox,
                   callbacks,
                   readVars, readHist, stopHist, txWhileClosed, cleanupLog>>

\* The connection breaks.
TransportError ==
    /\ sock = "open"
    /\ pc \notin CleanupPcs \cup EndPcs
    /\ sock' = "closed_err"
    /\ UNCHANGED <<pc, running, msgs, cfgVars, decoded, response, benchVars, paceVars, agentCache, stats, tickVars,
                   cacheVars, ws, orphan, connected, capabilities, inbox,
                   callbacks,
                   readVars, readHist, stopHist, txWhileClosed, cleanupLog>>

\* --------------------------------------------------------- specification
Next ==
    \/ Run
    \/ ConnectOK
    \/ ConnectFail
    \/ ConfigureFrames
    \/ CreateTask
    \/ TickSkip
    \/ TickCaptureError
    \/ TickStateError
    \/ TickInfer
    \/ InferReturn
    \/ SendAction
    \/ SendReturn
    \/ SleepDone
    \/ ExitLoop
    \/ Interrupt
    \/ CancelReceive
    \/ CloseBridge
    \/ Release
    \/ Stop
    \/ Dispatch
    \/ RecvError
    \/ RecvEnd
    \/ Arrive
    \/ PeerClose
    \/ TransportError

Spec == Init /\ [][Next]_vars

\* What the event loop guarantees: a task that can take its next step takes
\* it (the inference request returns or times out, a sleep ends, a send
\* returns), and the read task is resumed when run is suspended for good.
TaskStep ==
    \/ TickSkip \/ TickCaptureError \/ TickStateError \/ TickInfer
    \/ InferReturn \/ SendAction \/ SendReturn \/ SleepDone
    \/ ExitLoop \/ CancelReceive \/ CloseBridge \/ Release
ReadStep == Dispatch \/ RecvError \/ RecvEnd

\* The run that ticks forever, for what must eventually happen.
FairSpec ==
    InitUncounted /\ [][Next]_vars /\ WF_vars(TaskStep) /\ WF_vars(ReadStep)


\* ------------------------------------------------- BridgeClient by itself
\* A caller that drives a BridgeClient directly, as test_connection of
\* cli.py does, with any order of connect, receive_messages, send_action and
\* close; no callback is registered.  "api" is the caller between two
\* calls.  It reconnects only when no read task is iterating the old socket.
InitClient ==
    /\ counted = TRUE
    /\ pc = "api"
    /\ DefaultConfig
    /\ NotTimed
    /\ NoLog
    /\ InitState

\* Variant: connect starts the new connection with an empty cache.
ApiConnectOK_resets_cache ==
    /\ pc = "api"
    /\ rl # "running"
    /\ connect_ok
    /\ pc' = "api_connected"
    /\ latest_state' = None
    /\ latest_frame' = None
    /\ UNCHANGED <<latest_frame_seq, latest_frame_ts>>
    /\ UNCHANGED <<running, msgs, cfgVars, decoded, response, benchVars, paceVars, agentCache, stats, tickVars,
                   callbacks, readVars, readHist, stopHist,
                   txWhileClosed, cleanupLog>>

\* await bridge.connect(), returning True
ApiConnectOK ==
    /\ pc = "api"
    /\ rl # "running"
    /\ connect_ok
    /\ pc' = "api_connected"
    /\ UNCHANGED <<running, msgs, cfgVars, decoded, response, benchVars, paceVars, agentCache, stats, tickVars,
                   cacheVars, callbacks, readVars, readHist, stopHist,
                   txWhileClosed, cleanupLog>>

\* await bridge.connect(), raising ConnectionError
ApiConnectFail ==
    /\ pc = "api"
    /\ rl # "running"
    /\ connect_fail
    /\ pc' = "api_connect_error"
    /\ UNCHANGED <<running, msgs, cfgVars, decoded, response, benchVars, paceVars, agentCache, stats, tickVars,
                   cacheVars, callbacks, readVars, readHist, stopHist,
                   txWhileClosed, cleanupLog>>

\* the caller goes on after connect returned, or after it has caught the
\* ConnectionError
ApiConnectReturn ==
    /\ pc \in {"api_connected", "api_connect_error"}
    /\ pc' = "api"
    /\ UNCHANGED <<running, msgs, cfgVars, decoded, response, benchVars, paceVars, agentCache, stats, tickVars,
                   cacheVars, connVars, callbacks, readVars, readHist,
                   stopHist, txWhileClosed, cleanupLog>>

\* asyncio.create_task(bridge.receive_messages())
ApiReceive ==
    /\ pc = "api"
    /\ rl # "running"
    /\ rl' = IF ws = None THEN "done" ELSE "running"
    /\ rlExit' = IF ws = None THEN "no_socket" ELSE "none"
    /\ UNCHANGED <<pc, running, msgs, cfgVars, decoded, response, benchVars, paceVars, agentCache, stats, tickVars,
                   cacheVars, connVars, callbacks, readHist, stopHist,
                   txWhileClosed, cleanupLog>>

\* await bridge.send_action(action)
ApiSend ==
    /\ pc = "api"
    /\ sent' = send_action
    /\ action' = Some(_get_default_action)
    /\ tx' = IF sent' = "sent" THEN <<_get_default_action>> ELSE <<>>
    /\ wire' = IF sent' = "sent"
                THEN <<model_dump_json(_get_default_action)>> ELSE <<>>
    /\ txWhileClosed' = (txWhileClosed \/ (sent' = "sent" /\ ~connected))
    /\ pc' = "api_sent"
    /\ UNCHANGED <<running, msgs, cfgVars, decoded, response, benchVars, paceVars, agentCache, stats, inferOutcome,
                   tickOpen, cacheVars, connVars, callbacks, readVars,
                   readHist, stopHist, cleanupLog>>

\* send_action has returned to the caller
ApiSendReturn ==
    /\ pc = "api_sent"
    /\ pc' = "api"
    /\ sent' = "none"
    /\ action' = None
    /\ tx' = <<>>
    /\ wire' = <<>>
    /\ lastKind' = "none"
    /\ invoked' = <<>>
    /\ UNCHANGED <<running, msgs, cfgVars, decoded, response, benchVars, paceVars, agentCache, stats, inferOutcome,
                   tickOpen, cacheVars, connVars, callbacks, readVars,
                   frameHist, stopHist, txWhileClosed, cleanupLog>>

\* await bridge.close()
ApiClose ==
    /\ pc = "api"
    /\ close
    /\ pc' = "api_closed"
    /\ UNCHANGED <<running, msgs, cfgVars, decoded, response, benchVars, paceVars, agentCache, stats, tickVars,
                   cacheVars, ws, orphan, capabilities, callbacks,
                   readVars,
                   readHist, stopHist, txWhileClosed, cleanupLog>>

\* close has returned to the caller
ApiCloseReturn ==
    /\ pc = "api_closed"
    /\ pc' = "api"
    /\ UNCHANGED <<running, msgs, cfgVars, decoded, response, benchVars, paceVars, agentCache, stats, tickVars,
                   cacheVars, connVars, callbacks, readVars, readHist,
                   stopHist, txWhileClosed, cleanupLog>>

NextClient ==
    \/ ApiConnectOK
    \/ ApiConnectFail
    \/ ApiConnectReturn
    \/ ApiReceive
    \/ ApiSend
    \/ ApiSendReturn
    \/ ApiClose
    \/ ApiCloseReturn
    \/ Dispatch
    \/ RecvError
    \/ RecvEnd
    \/ Arrive
    \/ PeerClose
    \/ TransportError

ClientSpec == InitClient /\ [][NextClient]_vars


\* ------------------------------------------- observers that can raise
\* The same caller with the three observer callbacks registered before it
\* connects (bridge_client.py:150-165), where a callback may raise.
SetCallbacks ==
    /\ pc = "api"
    /\ ws = None
    /\ callbacks = {}
    /\ callbacks' = {"state", "ack", "frame"}
    /\ UNCHANGED <<pc, running, msgs, cfgVars, decoded, response, benchVars, paceVars, agentCache, stats, tickVars,
                   cacheVars, connVars, readVars, readHist, stopHist,
                   txWhileClosed, cleanupLog>>

\* What becomes of an exception a callback raises.  The frame callback is
\* called from _handle_binary_message, which has no try: the exception goes
\* up to the `except Exception` of receive_messages (bridge_client.py
\* :107-109).  The ack and state callbacks are called inside the try of
\* _handle_message, whose except logs the exception (bridge_client.py:147).
callback_raised(kind) == IF kind = "frame" THEN "exception" ELSE "logged"

\* One pass of the read loop in which the callback invoked raises, before
\* it has written anything; the handler has stored its sample by then.
DispatchCallbackRaises ==
    /\ CanRead
    /\ inbox # <<>>
    /\ LET m == Head(inbox)
           e == handle(m)
           before == IF e.kind = "frame" THEN latest_frame
                     ELSE IF e.kind = "state" THEN latest_state ELSE None
           after == IF e.kind = "frame" THEN Some(e.frame)
                    ELSE IF e.kind = "state" THEN Some(e.sid) ELSE None
           calls == invocations(e, before, after)
       IN  /\ calls # <<>>
           /\ inbox' = Tail(inbox)
           /\ lastKind' = "callback_raised"
           /\ invoked' = calls
           /\ latest_frame' = IF e.kind = "frame" THEN Some(e.frame) ELSE latest_frame
           /\ latest_frame_seq' = IF e.kind = "frame" THEN e.seq ELSE latest_frame_seq
           /\ latest_frame_ts' = IF e.kind = "frame" THEN e.ts ELSE latest_frame_ts
           /\ latest_state' = IF e.kind = "state" THEN Some(e.sid) ELSE latest_state
           /\ lastFrame' = IF ValidFrame(m) THEN Some(m.data) ELSE lastFrame
           /\ reordered' = IF ValidFrame(m)
                           THEN /\ lastFrame # None
                                /\ unpack_u32_be(SubSeq(m.data, 2, 5)) <
                                     unpack_u32_be(SubSeq(lastFrame[1], 2, 5))
                           ELSE reordered
           /\ connected' = IF callback_raised(calls[1].kind) = "exception"
                           THEN FALSE ELSE connected
           /\ rl' = IF callback_raised(calls[1].kind) = "exception"
                    THEN "done" ELSE rl
           /\ rlExit' = IF callback_raised(calls[1].kind) = "exception"
                        THEN "exception" ELSE rlExit
    /\ UNCHANGED <<pc, running, msgs, cfgVars, decoded, response, benchVars, paceVars, agentCache, stats, tickVars, ws, orphan,
                   capabilities,
                   sock, callbacks, stopHist, txWhileClosed, cleanupLog>>

NextObserver ==
    \/ SetCallbacks
    \/ ApiConnectOK
    \/ ApiConnectFail
    \/ ApiConnectReturn
    \/ ApiReceive
    \/ ApiSend
    \/ ApiSendReturn
    \/ ApiClose
    \/ ApiCloseReturn
    \/ Dispatch
    \/ DispatchCallbackRaises
    \/ RecvError
    \/ RecvEnd
    \/ Arrive
    \/ PeerClose
    \/ TransportError

ObserverSpec == InitClient /\ [][NextObserver]_vars


\* ------------------------------------------------ the pacing of the loop
\* The while loop of AgentLoop.run (loop.py:107-120) with its clock.  Time
\* is counted in units of 1/UnitsPerSecond s, so that the interval of the
\* rates used is a whole number: 1200 units at 5 Hz, 1000 at 6 Hz, 600 at
\* 10 Hz.
UnitsPerSecond == 6000
HzValues == {5, 6, 10}
\* loop.py:102
loop_interval == UnitsPerSecond \div decision_hz
\* how long the work of a tick can take: nothing, 50 ms, 100 ms, just
\* under 1/6 s, 1/6 s, just over it, 300 ms
WorkTimes == {0, 300, 600, 999, 1000, 1001, 1800}
\* asyncio.sleep returns at the delay asked for, or later
SleepLateness == {0, 1}

\* Variant: the loop always sleeps a whole interval.
sleep_for_whole_interval(interval, e) == interval

\* loop.py:117: max(0, loop_interval - elapsed)
sleep_for(interval, e) == IF interval - e > 0 THEN interval - e ELSE 0

InitPace ==
    /\ counted = TRUE
    /\ pc = "pace_head"
    /\ action_duration_ms_default = ACTION_DURATION_MS_DEFAULT
    /\ decision_hz \in HzValues
    /\ NotTimed
    /\ NoLog
    /\ InitState

\* loop.py:108-119: one pass: the tick runs for w, elapsed and sleep_time
\* are computed, and with nothing to sleep the next pass starts at once
PaceTick ==
    /\ pc = "pace_head"
    /\ \E w \in WorkTimes :
          /\ elapsed' = w
          /\ sleep_time' = sleep_for(loop_interval, w)
          /\ pc' = IF sleep_time' > 0 THEN "pace_sleep" ELSE "pace_head"
          /\ gap' = IF sleep_time' > 0 THEN None ELSE Some(w)
    /\ UNCHANGED <<running, msgs, cfgVars, decoded, response, benchVars, agentCache, stats, tickVars,
                   cacheVars, connVars, callbacks, readVars, readHist,
                   stopHist, txWhileClosed, cleanupLog>>

\* loop.py:120: asyncio.sleep(sleep_time) returns
PaceWake ==
    /\ pc = "pace_sleep"
    /\ \E late \in SleepLateness : gap' = Some(elapsed + sleep_time + late)
    /\ pc' = "pace_head"
    /\ UNCHANGED <<running, msgs, cfgVars, decoded, response, benchVars, elapsed, sleep_time, agentCache,
                   stats, tickVars, cacheVars, connVars, callbacks, readVars,
                   readHist, stopHist, txWhileClosed, cleanupLog>>

NextPace == PaceTick \/ PaceWake

PaceSpec == InitPace /\ [][NextPace]_vars


\* ---------------------------------------------- the policy with a client
\* A caller that connects, asks the policy for an action and sends it, as a
\* tick does, for any configured default duration.
ConfiguredDefaults == {5, ACTION_DURATION_MS_DEFAULT, 5000}
\* the inference results of a tick and a response out of range
PolicyResults ==
    InferResults \cup
    {<<"content", d>> :
        d \in {RespOutOfRange, RespOneOutOfRange, RespNoDuration, RespShort}}

InitPolicy ==
    /\ counted = TRUE
    /\ pc = "policy"
    /\ action_duration_ms_default \in ConfiguredDefaults
    /\ decision_hz = DECISION_HZ
    /\ NotTimed
    /\ NoLog
    /\ InitState

PolicyConnect ==
    /\ pc = "policy"
    /\ ws = None
    /\ connect_ok
    /\ UNCHANGED <<pc, running, msgs, cfgVars, decoded, response, benchVars, paceVars, agentCache, stats,
                   tickVars, cacheVars, callbacks, readVars, readHist,
                   stopHist, txWhileClosed, cleanupLog>>

\* policy.get_action(...)
PolicyCall ==
    /\ pc = "policy"
    /\ \E r \in PolicyResults :
          /\ action' = Some(get_action(r[1], r[2]))
          /\ inferOutcome' = IF InferFailed(r[1], r[2]) THEN "failed" ELSE "ok"
          /\ response' = Some(r)
    /\ pc' = "policy_got"
    /\ UNCHANGED <<running, msgs, cfgVars, decoded, benchVars, paceVars, agentCache, stats, sent,
                   tx, wire, tickOpen, cacheVars, connVars, callbacks, readVars,
                   readHist, stopHist, txWhileClosed, cleanupLog>>

\* bridge.send_action(action)
PolicySend ==
    /\ pc = "policy_got"
    /\ sent' = send_action
    /\ tx' = IF sent' = "sent" THEN <<action[1]>> ELSE <<>>
    /\ wire' = IF sent' = "sent"
                THEN <<model_dump_json(action[1])>> ELSE <<>>
    /\ txWhileClosed' = (txWhileClosed \/ (sent' = "sent" /\ ~connected))
    /\ pc' = "policy_sent"
    /\ UNCHANGED <<running, msgs, cfgVars, decoded, response, benchVars, paceVars, agentCache, stats,
                   action, inferOutcome, tickOpen, cacheVars, connVars,
                   callbacks, readVars, readHist, stopHist, cleanupLog>>

PolicyReturn ==
    /\ pc = "policy_sent"
    /\ pc' = "policy"
    /\ action' = None
    /\ sent' = "none"
    /\ tx' = <<>>
    /\ wire' = <<>>
    /\ inferOutcome' = "none"
    /\ response' = None
    /\ UNCHANGED <<running, msgs, cfgVars, decoded, benchVars, paceVars, agentCache, stats,
                   tickOpen, cacheVars, connVars, callbacks, readVars,
                   readHist, stopHist, txWhileClosed, cleanupLog>>

NextPolicy == PolicyConnect \/ PolicyCall \/ PolicySend \/ PolicyReturn

PolicySpec == InitPolicy /\ [][NextPolicy]_vars


\* ------------------------------------------------ the action on the wire
\* A caller that sends any valid action through a connected or unconnected
\* client, and the peer that decodes the text it receives.
ValidActions ==
    { ActionMessage(fw, st, yw, pt, jp, FALSE, us, FALSE, jp, du) :
        fw \in {-1, 0, 1}, st \in {-1, 1}, yw \in {-90, 0, 180}, pt \in {0},
        jp \in BOOLEAN, us \in BOOLEAN, du \in {20, 150, 2000} }

InitCodec ==
    /\ counted = TRUE
    /\ pc = "codec"
    /\ DefaultConfig
    /\ NotTimed
    /\ NoLog
    /\ InitState

CodecConnect ==
    /\ pc = "codec"
    /\ ws = None
    /\ connect_ok
    /\ UNCHANGED <<pc, running, msgs, cfgVars, decoded, response, benchVars, paceVars,
                   agentCache, stats, tickVars, cacheVars, callbacks, readVars,
                   readHist, stopHist, txWhileClosed, cleanupLog>>

\* await bridge.send_action(x)
CodecSend ==
    /\ pc = "codec"
    /\ \E x \in ValidActions : action' = Some(x)
    /\ sent' = send_action
    /\ tx' = IF sent' = "sent" THEN <<action'[1]>> ELSE <<>>
    /\ wire' = IF sent' = "sent" THEN <<model_dump_json(action'[1])>> ELSE <<>>
    /\ txWhileClosed' = (txWhileClosed \/ (sent' = "sent" /\ ~connected))
    /\ pc' = "codec_sent"
    /\ UNCHANGED <<running, msgs, cfgVars, decoded, response, benchVars, paceVars,
                   agentCache, stats, inferOutcome, tickOpen, cacheVars,
                   connVars, callbacks, readVars, readHist, stopHist,
                   cleanupLog>>

\* the peer decodes the text it received
PeerDecode ==
    /\ pc = "codec_sent"
    /\ wire # <<>>
    /\ decoded = None
    /\ decoded' = Some(model_validate_json(wire[1]))
    /\ UNCHANGED <<pc, running, msgs, cfgVars, response, benchVars, paceVars, agentCache,
                   stats, tickVars, cacheVars, connVars, callbacks, readVars,
                   readHist, stopHist, txWhileClosed, cleanupLog>>

\* send_action has returned to the caller
CodecReturn ==
    /\ pc = "codec_sent"
    /\ pc' = "codec"
    /\ action' = None
    /\ sent' = "none"
    /\ tx' = <<>>
    /\ wire' = <<>>
    /\ decoded' = None
    /\ UNCHANGED <<running, msgs, cfgVars, response, benchVars, paceVars, agentCache,
                   stats, inferOutcome, tickOpen, cacheVars, connVars,
                   callbacks, readVars, readHist, stopHist, txWhileClosed,
                   cleanupLog>>

NextCodec == CodecConnect \/ CodecSend \/ PeerDecode \/ CodecReturn

CodecSpec == InitCodec /\ [][NextCodec]_vars


\* --------------------------------------------------- timing statistics
\* The benchmark (benchmark.py) and the averages of the live statistics
\* table (loop.py).  Times are whole milliseconds; a mean and a frequency
\* are exact fractions num/den in lowest terms, where the code has floats.
MaxSamples == 5

\* end_to_end_ms of a sample
SampleValues == {0, 100, 120, 150, 200, 900}

RECURSIVE GCD(_, _)
GCD(a, b) == IF b = 0 THEN a ELSE GCD(b, a % b)

\* a / b for b > 0
Ratio(a, b) == LET g == GCD(a, b) IN [num |-> a \div g, den |-> b \div g]

\* r < k and r >= k for a fraction r and an integer k
Less(r, k) == r.num < k * r.den
AtLeast(r, k) == r.num >= k * r.den

RECURSIVE sum(_)
sum(values) == IF values = <<>> THEN 0 ELSE Head(values) + sum(Tail(values))

min(values) ==
    CHOOSE v \in {values[i] : i \in DOMAIN values} :
        \A i \in DOMAIN values : v <= values[i]

max(values) ==
    CHOOSE v \in {values[i] : i \in DOMAIN values} :
        \A i \in DOMAIN values : v >= values[i]

RECURSIVE insort(_, _)
insort(x, s) ==
    IF s = <<>> THEN <<x>>
    ELSE IF x <= Head(s) THEN <<x>> \o s
    ELSE <<Head(s)>> \o insort(x, Tail(s))

RECURSIVE sorted(_)
sorted(values) ==
    IF values = <<>> THEN <<>>
    ELSE insort(Head(values), sorted(Tail(values)))

\* Variant: the division is made whatever the mean.
effective_hz_unguarded(mean) == Ratio(1000 * mean.den, mean.num)

\* 1000.0 / mean if mean > 0 else 0

effective_hz(mean) ==
    IF mean.num > 0 THEN Ratio(1000 * mean.den, mean.num) ELSE Ratio(0, 1)

\* Variant: the 95th percentile is taken at 0.95 of the last index.
calc_stats_p95_of_last(values) ==
    LET sorted_vals == sorted(values) IN
    IF values = <<>>
    THEN [mean |-> Ratio(0, 1), min |-> 0, max |-> 0, p50 |-> 0, p95 |-> 0]
    ELSE
    [mean |-> Ratio(sum(values), Len(values)),
     min |-> min(values),
     max |-> max(values),
     p50 |-> sorted_vals[Len(sorted_vals) \div 2 + 1],
     p95 |-> sorted_vals[((Len(sorted_vals) - 1) * 95) \div 100 + 1]]

\* calc_stats of _analyze_results; sequences are indexed from 1 here
calc_stats(values) ==
    IF values = <<>>
    THEN [mean |-> Ratio(0, 1), min |-> 0, max |-> 0, p50 |-> 0, p95 |-> 0]
    ELSE LET sorted_vals == sorted(values) IN
         [mean |-> Ratio(sum(values), Len(values)),
          min |-> min(values),
          max |-> max(values),
          p50 |-> sorted_vals[Len(sorted_vals) \div 2 + 1],
          p95 |-> sorted_vals[(Len(sorted_vals) * 95) \div 100 + 1]]

\* Variant: a mean of exactly 250 ms passes the first tier.
_check_acceptance_criteria_inclusive(e2e_stats, hz) ==
    IF ~AtLeast(e2e_stats.mean, 251) /\ AtLeast(hz, 3) THEN "tier1"
    ELSE IF Less(e2e_stats.mean, 400) /\ AtLeast(hz, 2) THEN "tier2"
    ELSE "fail"

\* "tier1": PASS < 250ms, >= 3 Hz; "tier2": PASS < 400ms, >= 2 Hz
_check_acceptance_criteria(e2e_stats, hz) ==
    IF Less(e2e_stats.mean, 250) /\ AtLeast(hz, 3) THEN "tier1"
    ELSE IF Less(e2e_stats.mean, 400) /\ AtLeast(hz, 2) THEN "tier2"
    ELSE "fail"

\* the record _save_results writes, without its timestamp and config
SummaryRecord(values) ==
    [total_iterations |-> Len(values),
     complete_measurements |-> Len(values),
     e2e_stats_ms |-> calc_stats(values),
     effective_hz |-> effective_hz(calc_stats(values).mean)]

\* Variant: the log file is opened for writing, not for appending.
_save_results_overwrites(log, values) == <<SummaryRecord(values)>>

\* open(log_file, "a") and one line written

_save_results(log, values) == Append(log, SummaryRecord(values))

\* what logs/bench.jsonl may hold before the run
PriorLogs == {<<>>, <<SummaryRecord(<<100>>)>>}

\* the process runs either the benchmark ("bench_idle") or the agent loop,
\* of which only the statistics are followed here ("stats")
InitTiming ==
    /\ counted = TRUE
    /\ pc \in {"bench_idle", "stats"}
    /\ DefaultConfig
    /\ NotTimed
    /\ bench_log \in PriorLogs
    /\ pc = "stats" => bench_log = <<>>
    /\ InitState
    /\ ~use_mod_frames
    /\ feed = "text"

timingRest == <<running, msgs, cfgVars, decoded, response, paceVars, agentCache,
                tickVars, cacheVars, readHist, stopHist, txWhileClosed,
                cleanupLog>>

\* BenchmarkRunner.run up to the loop: callbacks, connect, receive task
BenchConnectOK ==
    /\ pc = "bench_idle"
    /\ callbacks' = {"state", "ack"}
    /\ connect_ok
    /\ rl' = "running"
    /\ pc' = "bench_loop"
    /\ UNCHANGED <<timingRest, benchVars, stats, rlExit>>

\* connect raised: run prints and returns
BenchConnectFail ==
    /\ pc = "bench_idle"
    /\ callbacks' = {"state", "ack"}
    /\ connect_fail
    /\ pc' = "bench_returned"
    /\ UNCHANGED <<timingRest, benchVars, stats, readVars>>

\* one _run_iteration: it appends its sample to metrics unless one of its
\* stages raised, which is printed and nothing else; what it captured and
\* transmitted is gone when it returns
BenchIteration ==
    /\ pc = "bench_loop"
    /\ Len(metrics) < MaxSamples
    /\ \E end_to_end_ms \in SampleValues, raised \in BOOLEAN :
          metrics' = IF raised THEN metrics
                     ELSE Append(metrics, end_to_end_ms)
    /\ UNCHANGED <<pc, timingRest, summary, acceptance, bench_log, total_ms,
                   live_hz, runVars, stats, connVars, callbacks, readVars>>

\* _analyze_results with _check_acceptance_criteria and _save_results
_analyze_results ==
    IF metrics = <<>>
    THEN UNCHANGED <<summary, acceptance, bench_log>>
    ELSE LET e2e_stats == calc_stats(metrics)
             hz == effective_hz(e2e_stats.mean) IN
         /\ summary' = Some([e2e_stats |-> e2e_stats, effective_hz |-> hz])
         /\ acceptance' = _check_acceptance_criteria(e2e_stats, hz)
         /\ bench_log' = _save_results(bench_log, metrics)

\* the duration is over: cleanup, then the analysis
BenchFinish ==
    /\ pc = "bench_loop"
    /\ rl' = IF rl = "running" THEN "cancelled" ELSE rl
    /\ close
    /\ UNCHANGED <<ws, orphan, capabilities>>
    /\ _analyze_results
    /\ pc' = "bench_done"
    /\ UNCHANGED <<timingRest, metrics, total_ms, live_hz, runVars, stats,
                   callbacks, rlExit>>

\* the three stage times one tick adds to AgentLoop.stats, summed
TickTimes == {0, 100, 294, 1000}

\* a tick of the agent loop, as far as the statistics go: a tick that is
\* skipped or raises early adds no time
StatsTick ==
    /\ pc = "stats"
    /\ stats.iterations < MaxTicks
    /\ stats' = [stats EXCEPT !.iterations = @ + 1]
    /\ \E t \in TickTimes : total_ms' = total_ms + t
    /\ UNCHANGED <<pc, timingRest, metrics, summary, acceptance, bench_log,
                   live_hz, runVars, connVars, callbacks, readVars>>

\* the "Effective Hz" row of _generate_stats_table, before it is formatted
\* with two decimals
_generate_stats_table ==
    LET iters == IF stats.iterations > 1 THEN stats.iterations ELSE 1
        avg_total == Ratio(total_ms, iters)
    IN  effective_hz(avg_total)

GenerateStatsTable ==
    /\ pc = "stats"
    /\ live_hz' = Some(_generate_stats_table)
    /\ UNCHANGED <<pc, timingRest, metrics, summary, acceptance, bench_log,
                   total_ms, runVars, stats, connVars, callbacks, readVars>>

NextTiming ==
    \/ BenchConnectOK
    \/ BenchConnectFail
    \/ BenchIteration
    \/ BenchFinish
    \/ StatsTick
    \/ GenerateStatsTable

TimingSpec == InitTiming /\ [][NextTiming]_vars


\* ------------------------------------------------- the benchmark run
\* BenchmarkRunner.run with the stages of _run_iteration and the read task.
\* Times are in units of 10 ms.  The run lasts Duration units.
Duration == 8
\* asyncio.sleep(0.01) between two iterations (benchmark.py:83)
BENCH_SLEEP == 1
\* how long the capture, the inference call and the send can take
CaptureTimes == {1}
VlmTimes == {3, 5}
SendTimes == {0, 1}

\* Variant: the send time is left out of the end-to-end time.
TimingSample_without_send(timestamp, t_capture_ms, t_vlm_ms, t_ws_send_ms) ==
    [timestamp |-> timestamp, t_capture_ms |-> t_capture_ms,
     t_vlm_ms |-> t_vlm_ms, t_ws_send_ms |-> t_ws_send_ms,
     end_to_end_ms |-> t_capture_ms + t_vlm_ms]

\* the dict appended to metrics (benchmark.py:122-133)
TimingSample(timestamp, t_capture_ms, t_vlm_ms, t_ws_send_ms) ==
    [timestamp |-> timestamp, t_capture_ms |-> t_capture_ms,
     t_vlm_ms |-> t_vlm_ms, t_ws_send_ms |-> t_ws_send_ms,
     end_to_end_ms |-> t_capture_ms + t_vlm_ms + t_ws_send_ms]

\* the bridge sends frames, state samples and acks; the log is new
InitBench ==
    /\ counted = TRUE
    /\ pc = "bench_idle"
    /\ DefaultConfig
    /\ NotTimed
    /\ NoLog
    /\ InitState
    /\ ~use_mod_frames
    /\ feed = "mixed"

benchRest == <<running, cfgVars, decoded, response, paceVars, agentCache,
               stats, stopHist, cleanupLog, summary, acceptance, bench_log,
               total_ms, live_hz>>

\* benchmark.py:80 and 97-104: the duration is not over, an iteration starts
\* with the capture and the encoding, which can raise; the except of the
\* iteration prints and the loop goes on to its sleep
BenchCapture ==
    /\ pc = "bench_loop"
    /\ clock < Duration
    /\ \E t_capture_ms \in CaptureTimes, raised \in BOOLEAN :
          /\ clock' = clock + t_capture_ms
          /\ timing' = IF raised THEN None
                       ELSE Some([t_capture_ms |-> t_capture_ms, t_vlm_ms |-> 0])
          /\ pc' = IF raised THEN "bench_sleep" ELSE "bench_infer"
    /\ UNCHANGED <<benchRest, msgs, metrics, samples, b_latest_state,
                   acks_received, tickVars, cacheVars, connVars, callbacks,
                   readVars, readHist, txWhileClosed>>

\* benchmark.py:109-113: the worker thread has run get_action, which returns
\* an action whatever happened to the request; the await resumes
BenchInferReturn ==
    /\ pc = "bench_infer"
    /\ \E r \in InferResults, t_vlm_ms \in VlmTimes :
          /\ action' = Some(get_action(r[1], r[2]))
          /\ inferOutcome' = IF InferFailed(r[1], r[2]) THEN "failed" ELSE "ok"
          /\ timing' = Some([timing[1] EXCEPT !.t_vlm_ms = t_vlm_ms])
          /\ clock' = clock + t_vlm_ms
    /\ pc' = "bench_send"
    /\ lastKind' = "none"
    /\ invoked' = <<>>
    /\ UNCHANGED <<benchRest, msgs, metrics, samples, b_latest_state,
                   acks_received, sent, tx, wire, tickOpen, cacheVars,
                   connVars, callbacks, readVars, frameHist, txWhileClosed>>

\* benchmark.py:117: send_action up to the point where ws.send has written
\* or raised, or the early return
BenchSend ==
    /\ pc = "bench_send"
    /\ sent' = send_action
    /\ tx' = IF sent' = "sent" THEN Append(tx, action[1]) ELSE tx
    /\ wire' = IF sent' = "sent"
                THEN Append(wire, model_dump_json(action[1])) ELSE wire
    /\ txWhileClosed' = (txWhileClosed \/ (sent' = "sent" /\ ~connected))
    /\ \E yields \in BOOLEAN :
          pc' = IF yields /\ sent' \in {"sent", "failed"} THEN "bench_send_wait"
                ELSE "bench_send_ret"
    /\ UNCHANGED <<benchRest, msgs, metrics, runVars, action, inferOutcome,
                   tickOpen, cacheVars, connVars, callbacks, readVars,
                   readHist>>

\* benchmark.py:118-133: send_action has returned, whatever its result; the
\* sample is appended and the iteration is over
BenchRecord ==
    /\ pc \in {"bench_send_wait", "bench_send_ret"}
    /\ \E t_ws_send_ms \in SendTimes :
          /\ clock' = clock + t_ws_send_ms
          /\ samples' = Append(samples,
                               TimingSample(clock', timing[1].t_capture_ms,
                                            timing[1].t_vlm_ms, t_ws_send_ms))
          /\ metrics' = Append(metrics, samples'[Len(samples')].end_to_end_ms)
    /\ timing' = None
    /\ pc' = "bench_sleep"
    /\ action' = None
    /\ sent' = "none"
    /\ tx' = <<>>
    /\ wire' = <<>>
    /\ inferOutcome' = "none"
    /\ lastKind' = "none"
    /\ invoked' = <<>>
    /\ UNCHANGED <<benchRest, msgs, b_latest_state, acks_received, tickOpen,
                   cacheVars, connVars, callbacks, readVars, frameHist,
                   txWhileClosed>>

\* benchmark.py:83: asyncio.sleep(0.01) returns
BenchSleepDone ==
    /\ pc = "bench_sleep"
    /\ clock' = clock + BENCH_SLEEP
    /\ pc' = "bench_loop"
    /\ lastKind' = "none"
    /\ invoked' = <<>>
    /\ UNCHANGED <<benchRest, msgs, metrics, samples, timing, b_latest_state,
                   acks_received, tickVars, cacheVars, connVars, callbacks,
                   readVars, frameHist, txWhileClosed>>

\* benchmark.py:80 and 85-92: the duration is over
BenchTimeUp == clock >= Duration /\ BenchFinish

\* One pass of the read loop with the callbacks of the benchmark
\* (benchmark.py:138-146): _on_state keeps the sample, _on_ack counts every
\* ack, applied or not.
BenchDispatch ==
    /\ CanRead
    /\ inbox # <<>>
    /\ LET m == Head(inbox)
           e == handle(m)
           before == IF e.kind = "frame" THEN latest_frame
                     ELSE IF e.kind = "state" THEN latest_state ELSE None
           after == IF e.kind = "frame" THEN Some(e.frame)
                    ELSE IF e.kind = "state" THEN Some(e.sid) ELSE None
           calls == invocations(e, before, after)
           cb == IF calls # <<>> THEN calls[1].kind ELSE "none"
       IN  /\ inbox' = Tail(inbox)
           /\ lastKind' = e.kind
           /\ invoked' = calls
           /\ latest_frame' = IF e.kind = "frame" THEN Some(e.frame) ELSE latest_frame
           /\ latest_frame_seq' = IF e.kind = "frame" THEN e.seq ELSE latest_frame_seq
           /\ latest_frame_ts' = IF e.kind = "frame" THEN e.ts ELSE latest_frame_ts
           /\ latest_state' = IF e.kind = "state" THEN Some(e.sid) ELSE latest_state
           /\ lastFrame' = IF ValidFrame(m) THEN Some(m.data) ELSE lastFrame
           /\ reordered' = IF ValidFrame(m)
                           THEN /\ lastFrame # None
                                /\ unpack_u32_be(SubSeq(m.data, 2, 5)) <
                                     unpack_u32_be(SubSeq(lastFrame[1], 2, 5))
                           ELSE reordered
           /\ b_latest_state' = IF cb = "state" THEN Some(e.sid) ELSE b_latest_state
           /\ acks_received' = IF cb = "ack" THEN acks_received + 1 ELSE acks_received
    /\ UNCHANGED <<benchRest, pc, msgs, metrics, samples, timing, clock,
                   tickVars, ws, orphan, connected, capabilities, sock,
                   callbacks, readVars, txWhileClosed>>

NextBench ==
    \/ BenchConnectOK
    \/ BenchConnectFail
    \/ BenchCapture
    \/ BenchInferReturn
    \/ BenchSend
    \/ BenchRecord
    \/ BenchSleepDone
    \/ BenchTimeUp
    \/ BenchDispatch
    \/ RecvError
    \/ RecvEnd
    \/ Arrive
    \/ PeerClose
    \/ TransportError

BenchSpec == InitBench /\ [][NextBench]_vars


\* ================================================================ claims
DefaultAction ==
    [forward |-> 0, strafe |-> 0, yaw |-> 0, pitch |-> 0, jump |-> FALSE,
     attack |-> FALSE, use |-> FALSE, sneak |-> FALSE, sprint |-> FALSE,
     duration_ms |-> 150]

\* C1: a message that is waiting while a tick's get_action call is in
\* flight can be dispatched by the read loop at once, without waiting for
\* the call to return.
C1_ReadNotBlockedByInference ==
    (pc = "infer" /\ rl = "running" /\ inbox # <<>>) => ENABLED Dispatch

C3_StopsAfterConnectionClosed ==
    (rl = "done" /\ ~connected) ~> (pc \notin LoopPcs)

TickRaisesOnState ==
    /\ pc = "loop_head"
    /\ stats'.iterations # stats.iterations
    /\ HasFrame
    /\ a_latest_state # None
TickCounted ==
    stats'.errors = stats.errors + 1 /\ pc' \in {"sleep", "loop_head"}
LoopLeftOnlyOnRequest ==
    pc' \in LoopPcs \/ (pc' = "cleanup" /\ (~running \/ interrupted'))
\* C4: a tick that raises is caught at the tick boundary: the error counter
\* goes up by exactly one and the loop goes on to its sleep or its next
\* pass; nothing but a stop request or an interrupt takes run out of the
\* loop.
C4_TickErrorsCaught ==
    /\ [][TickRaisesOnState => TickCounted]_vars
    /\ [][stats'.errors # stats.errors => (pc \in LoopPcs /\ TickCounted)]_vars
    /\ [][(pc \in LoopPcs) => LoopLeftOnlyOnRequest]_vars

\* C5: the cached frame, sequence number and timestamp are those of the
\* valid frame message dispatched last, also when its sequence number is
\* lower than the one it replaces.
C5_LastFrameWins ==
    IF lastFrame = None
    THEN latest_frame = None /\ latest_frame_seq = 0 /\ latest_frame_ts = 0
    ELSE LET raw == lastFrame[1]
         IN  /\ latest_frame = Some(SubSeq(raw, 10, Len(raw)))
             /\ latest_frame_seq =
                  raw[2] * 16777216 + raw[3] * 65536 + raw[4] * 256 + raw[5]
             /\ latest_frame_ts =
                  raw[6] * 16777216 + raw[7] * 65536 + raw[8] * 256 + raw[9]
C5_Witness ==
    reordered /\ lastFrame = Some(FrameB) /\ latest_frame = Some(<<11, 12>>)

ShortBinaryDispatched ==
    /\ CanRead
    /\ inbox # <<>>
    /\ Head(inbox).bin
    /\ Len(Head(inbox).data) < 9
    /\ inbox' = Tail(inbox)
ShortBinaryIgnored ==
    /\ UNCHANGED <<cacheVars, agentCache, stats, connected>>
    /\ rl' = "running"
    /\ lastKind' \notin {"frame", "state", "ack"}
\* C6: dispatching a binary message shorter than 9 bytes changes neither the
\* cache nor anything a callback writes, leaves the connection marked
\* connected and the read loop running.
C6_ShortBinaryRejected == [][ShortBinaryDispatched => ShortBinaryIgnored]_vars
C6_Witness ==
    lastKind = "short" /\ rl = "running" /\ connected /\ latest_frame # None


\* C7: when the iteration of the read loop raises a transport error, the
\* read loop ends with the connection marked closed, and a read loop that
\* has ended dispatches nothing more.
ReadLoopEnded ==
    /\ rl' = "done"
    /\ inbox' = inbox
    /\ UNCHANGED <<cacheVars, agentCache, lastFrame>>
    /\ stats'.frames_received = stats.frames_received
    /\ stats'.actions_acked = stats.actions_acked
C7_TransportErrorEndsReadLoop ==
    /\ [](rlExit = "error" => (rl = "done" /\ ~connected))
    /\ [][(rl = "done" /\ pc \in LoopPcs) => ReadLoopEnded]_vars
C7_Witness ==
    rlExit = "error" /\ rl = "done" /\ ~connected /\ pc = "sleep" /\ lastKind = "none"

\* C8: a send_action call made while the client is not connected (never
\* connected, closed, or marked closed by the read loop) returns False by
\* the early return and transmits nothing; nothing is ever transmitted while
\* the connection is marked closed.
SendWhileNotConnected ==
    pc = "api" /\ pc' = "api_sent" /\ (~connected \/ ws = None)
SendRefused == sent' = "refused" /\ tx' = <<>>
C8_SendRefusedWhenNotConnected ==
    /\ [][SendWhileNotConnected => SendRefused]_vars
    /\ []~txWhileClosed
C8_Witness ==
    pc = "api_sent" /\ sent = "refused" /\ ws # None /\ rlExit = "error"

\* C9: a stop request that arrives while a tick is in progress lets that
\* tick run to its end, send_action call included, and no tick starts
\* afterwards (an interrupt, which cuts a tick short by itself, set aside).
C9_StopLetsTickComplete ==
    (stopReq = "mid_tick" /\ ~interrupted)
        => /\ ~tickAfterStop
           /\ pc \in TickPcs \cup {"loop_head", "sleep"} \cup CleanupPcs
                     \cup {"stopped", "crashed"}
           /\ (pc \notin TickPcs) => ~tickOpen
C9_Witness ==
    stopReq = "mid_tick" /\ ~interrupted /\ pc = "stopped" /\ stats.actions_sent = 1

\* C10: cleanup cancels the read task, then closes the connection, then
\* releases the capture (when there is one) and the policy; the run is then
\* stopped, and a stopped run takes no further step.
CleanupOrder ==
    <<"cancel_read", "close_conn">>
        \o (IF use_mod_frames THEN <<>> ELSE <<"release_capture">>)
        \o <<"release_policy">>
C10_CleanupOrderAndTerminal ==
    /\ [](pc = "close" => (cleanupLog = SubSeq(CleanupOrder, 1, 1) /\ rl # "running"))
    /\ [](pc = "release" =>
            (cleanupLog = SubSeq(CleanupOrder, 1, 2) /\ rl # "running" /\ ~connected))
    /\ [](pc = "stopped" =>
            (cleanupLog = CleanupOrder /\ rl # "running" /\ ~connected /\ ~running))
    /\ [][pc # "stopped"]_vars
C10_Witness ==
    pc = "stopped" /\ ~use_mod_frames /\ cleanupLog = CleanupOrder /\ rlExit = "cancelled"


\* C11: close on a client that never connected changes nothing; close on a
\* client that has a socket leaves it not connected with the socket closed,
\* and a close that follows a close changes nothing.
CloseCalled == pc = "api" /\ pc' = "api_closed"
CloseEffect ==
    IF ws = None
    THEN UNCHANGED <<connVars, cacheVars, readVars>>
    ELSE /\ ~connected'
         /\ sock' = "closed_local"
         /\ UNCHANGED <<ws, orphan, capabilities, cacheVars, readVars>>
         /\ (sock = "closed_local" /\ ~connected) => UNCHANGED connVars
C11_CloseIdempotent == [][CloseCalled => CloseEffect]_vars
C11_Witness ==
    pc = "api_closed" /\ ws # None /\ ~connected /\ sock = "closed_local"


\* a tick starts: the iteration counter goes up at the head of the loop
TickStarted == pc = "loop_head" /\ stats'.iterations = stats.iterations + 1
TickSkipped ==
    /\ pc' \notin TickPcs
    /\ a_latest_state = None => pc' \in {"sleep", "loop_head"}
    /\ ~tickOpen'
    /\ action' = None
    /\ tx' = <<>>
    /\ sent' = "none"
    /\ inferOutcome' = "none"
    /\ stats'.errors = stats.errors
    /\ stats'.actions_sent = stats.actions_sent
C14_OneActionPerTick ==
    /\ [](Len(tx) <= 1)
    /\ [](tx # <<>> => (/\ pc \in {"send_wait", "send_ret"}
                        /\ inferOutcome # "none"
                        /\ tx = <<action[1]>>))
    /\ [][(tx' # tx /\ tx' # <<>>) => (pc = "send" /\ tx = <<>>)]_vars
C14_Witness ==
    pc = "send_wait" /\ inferOutcome = "ok" /\ Len(tx) = 1 /\ tx[1].forward = 1

\* C15: once connect has succeeded a run ends only by a stop request or an
\* interrupt; the only other end of a run is the connect failure.
C15_RunEndsOnlyOnRequest ==
    pc \in EndPcs
        => \/ (pc = "returned" /\ ws = None)
           \/ (pc = "stopped" /\ (stopReq # "no" \/ interrupted))

\* C16: when connect fails, run returns with no read task, no tick, nothing
\* sent, and the running flag false.
C16_ConnectFailureLeavesIdle ==
    pc = "returned"
        => /\ ws = None
           /\ ~connected
           /\ rl = "none"
           /\ stats.iterations = 0
           /\ tx = <<>>
           /\ ~running

SendFailedTickEnds ==
    /\ pc \in {"send_wait", "send_ret"}
    /\ sent = "failed"
    /\ pc' \in {"sleep", "loop_head"}
\* C18: a tick whose send failed in the transport ends with the error
\* counter one higher and the loop going on.
C18_SendFailureCounted ==
    [][SendFailedTickEnds
         => stats'.errors = stats.errors + 1]_vars

MalformedText(m) ==
    /\ ~m.bin
    /\ \/ m.json # "object"
       \/ m.type \notin {"ack", "state"}
       \/ ~m.valid
MalformedTextDispatched ==
    /\ CanRead
    /\ inbox # <<>>
    /\ MalformedText(Head(inbox))
    /\ inbox' = Tail(inbox)
TextDropped ==
    /\ UNCHANGED <<cacheVars, agentCache, stats, connected>>
    /\ rl' = "running"
    /\ lastKind' \in {"logged", "ignored"}
\* C19: dispatching a text message that is not JSON, not an object, fails
\* the validation of its type, or has a type other than ack and state
\* changes no cache and nothing a callback writes, leaves the connection
\* marked connected and the read loop running.
C19_MalformedTextDropped == [][MalformedTextDispatched => TextDropped]_vars
C19_Witness ==
    lastKind = "logged" /\ rl = "running" /\ connected /\ latest_state # None


\* C13: the loop sleeps max(0, interval - elapsed) after a tick; a tick that
\* took the interval or longer is followed by the next tick at once, without
\* a sleep, and two ticks never start less than an interval apart.
C13_PacingWithoutCatchUp ==
    /\ sleep_time >= 0
    /\ pc = "pace_sleep" => (sleep_time > 0 /\ sleep_time = loop_interval - elapsed)
    /\ (pc = "pace_head" /\ gap # None)
          => /\ gap[1] >= loop_interval
             /\ elapsed >= loop_interval => (sleep_time = 0 /\ gap[1] = elapsed)
             /\ elapsed < loop_interval => gap[1] >= elapsed + sleep_time
C13_Witness ==
    /\ pc = "pace_head"
    /\ decision_hz = 6
    /\ elapsed = 1800
    /\ sleep_time = 0
    /\ gap = Some(1800)

InRange(a) ==
    /\ a.forward >= -1 /\ a.forward <= 1
    /\ a.strafe >= -1 /\ a.strafe <= 1
    /\ a.duration_ms >= 20 /\ a.duration_ms <= 2000
C20_AtMostOneConnection == ~(orphan /\ sock = "open")

ConnectSucceeded == pc = "api" /\ pc' = "api_connected"
ConnectRaised == pc = "api" /\ pc' = "api_connect_error"
NoHandshake ==
    /\ tx' = tx
    /\ msgs' = msgs
    /\ UNCHANGED <<cacheVars, agentCache, stats, readVars, lastKind>>
ConnectedWithDefaults ==
    /\ connected'
    /\ ws' # None
    /\ sock' = "open"
    /\ capabilities' = {<<"supports_mouse", FALSE>>,
                        <<"supports_inventory", FALSE>>,
                        <<"supports_chat_cmd", FALSE>>}
    /\ NoHandshake
ConnectErrorRaised ==
    /\ ~connected'
    /\ UNCHANGED <<ws, capabilities, sock>>
    /\ NoHandshake
\* C21: a connect that succeeds leaves the client connected with the three
\* capabilities all false, having transmitted nothing and consumed no
\* inbound message; a connect that fails leaves it not connected and the
\* caller with the connect error.
C21_ConnectInstallsDefaults ==
    /\ [][ConnectSucceeded => ConnectedWithDefaults]_vars
    /\ [][ConnectRaised => ConnectErrorRaised]_vars
    /\ [](pc = "api_connected" => connected)
    /\ [](pc = "api_connect_error" => ~connected)
C21_Witness ==
    /\ pc = "api_connected"
    /\ connected
    /\ capabilities = DefaultCapabilities
    /\ msgs = 0
    /\ tx = <<>>
    /\ ~orphan

Below(s, v) == Cardinality({i \in DOMAIN s : s[i] < v})
NotAbove(s, v) == Cardinality({i \in DOMAIN s : s[i] <= v})
\* v stands at index k, counted from 0, of s sorted ascending
AtSortedIndex(s, k, v) ==
    /\ \E i \in DOMAIN s : s[i] = v
    /\ Below(s, v) <= k
    /\ k < NotAbove(s, v)
RECURSIVE TotalUpTo(_, _)
TotalUpTo(s, n) == IF n = 0 THEN 0 ELSE TotalUpTo(s, n - 1) + s[n]
SpecExample == <<100, 150, 200, 120, 900>>
Analysed == pc = "bench_done" /\ summary # None

\* C23: for every non-empty sequence of timing values the statistics are
\* mean = sum/n, the least and the greatest value, p50 = the value at index
\* floor(n/2) and p95 = the value at index floor(0.95 n) of the values sorted
\* ascending, all over the whole sample set, with both indices below n; for
\* 100, 150, 200, 120, 900 they are p50 = 150, p95 = 900 and mean = 294.
C23_CalcStats ==
    Analysed =>
        LET st == summary[1].e2e_stats
            n == Len(metrics)
        IN  /\ n > 0
            /\ st.mean.num * n = TotalUpTo(metrics, n) * st.mean.den
            /\ \E i \in 1..n : metrics[i] = st.min
            /\ \A i \in 1..n : st.min <= metrics[i]
            /\ \E i \in 1..n : metrics[i] = st.max
            /\ \A i \in 1..n : st.max >= metrics[i]
            /\ n \div 2 < n
            /\ (95 * n) \div 100 < n
            /\ AtSortedIndex(metrics, n \div 2, st.p50)
            /\ AtSortedIndex(metrics, (95 * n) \div 100, st.p95)
            /\ metrics = SpecExample =>
                  /\ st.p50 = 150
                  /\ st.p95 = 900
                  /\ st.mean = [num |-> 294, den |-> 1]

C23_Witness ==
    /\ Analysed
    /\ metrics = SpecExample
    /\ summary[1].e2e_stats.p50 = 150
    /\ summary[1].e2e_stats.p95 = 900
    /\ summary[1].e2e_stats.min = 100

FirstTier(st, hz) == st.mean.num < 250 * st.mean.den /\ hz.num >= 3 * hz.den
SecondTier(st, hz) == st.mean.num < 400 * st.mean.den /\ hz.num >= 2 * hz.den

\* C24: the acceptance check reports the first tier exactly when the mean
\* end-to-end time is below 250 ms and the effective frequency at least 3 Hz,
\* otherwise the second tier exactly when the mean is below 400 ms and the
\* frequency at least 2 Hz, otherwise a failure; 100, 150, 200, 120, 900
\* passes the second tier and not the first.
C24_AcceptanceTiers ==
    Analysed =>
        LET st == summary[1].e2e_stats
            hz == summary[1].effective_hz
        IN  /\ acceptance \in {"tier1", "tier2", "fail"}
            /\ acceptance = "tier1" <=> FirstTier(st, hz)
            /\ acceptance = "tier2" <=>
                  (~FirstTier(st, hz) /\ SecondTier(st, hz))
            /\ acceptance = "fail" <=>
                  (~FirstTier(st, hz) /\ ~SecondTier(st, hz))
            /\ metrics = SpecExample => acceptance = "tier2"

C24_Witness ==
    /\ Analysed
    /\ metrics = SpecExample
    /\ acceptance = "tier2"
    /\ summary[1].e2e_stats.mean = [num |-> 294, den |-> 1]
    /\ summary[1].effective_hz = [num |-> 500, den |-> 147]

\* hz is 1000 / (total / n) when the total is positive, and 0 when it is 0
FrequencyOf(hz, total, n) ==
    /\ hz.den > 0
    /\ IF total > 0
       THEN hz.num * total = 1000 * n * hz.den
       ELSE hz.num = 0
SummaryFrequency ==
    Analysed =>
        /\ FrequencyOf(summary[1].effective_hz,
                       TotalUpTo(metrics, Len(metrics)), Len(metrics))
        /\ summary[1].e2e_stats.mean.num * Len(metrics)
              = TotalUpTo(metrics, Len(metrics)) * summary[1].e2e_stats.mean.den
LiveFrequency ==
    live_hz # None =>
        FrequencyOf(live_hz[1], total_ms,
                    IF stats.iterations = 0 THEN 1 ELSE stats.iterations)
TableGenerated == live_hz' # live_hz => LiveFrequency'

\* C25: the effective frequency is 1000 divided by the mean end-to-end time
\* in ms when that mean is positive and 0, with no division, when the mean
\* is 0, in the benchmark summary and in the live statistics table.
C25_EffectiveFrequency == [](SummaryFrequency) /\ [][TableGenerated]_vars

C25_Witness ==
    /\ Analysed
    /\ metrics = <<0, 0>>
    /\ summary[1].e2e_stats.mean.num = 0
    /\ summary[1].effective_hz.num = 0
    /\ acceptance = "fail"

\* run returns: after a failed connect, or after its analysis
BenchReturns ==
    /\ pc \in {"bench_idle", "bench_loop"}
    /\ pc' \in {"bench_returned", "bench_done"}
BenchEnds == pc = "bench_loop" /\ pc' = "bench_done"
OneRecordAppended ==
    /\ Len(bench_log') = Len(bench_log) + 1
    /\ SubSeq(bench_log', 1, Len(bench_log)) = bench_log
RunAppendsOne ==
    IF BenchReturns THEN OneRecordAppended ELSE bench_log' = bench_log

\* C26 as stated: every benchmark run appends exactly one summary record to
\* the run log and leaves the records already there as they are.
C26_EveryRunAppendsOne == [][RunAppendsOne]_vars

RunAppends ==
    IF BenchEnds /\ metrics # <<>>
    THEN /\ OneRecordAppended
         /\ bench_log'[Len(bench_log')].total_iterations = Len(metrics)
    ELSE bench_log' = bench_log

\* C26 as amended: a benchmark run appends one summary record exactly when
\* it reaches its analysis with at least one timing sample, and otherwise
\* appends nothing; no step alters or removes a record already in the log.
C26_RunWithSamplesAppendsOne == [][RunAppends]_vars

C26_Witness ==
    /\ pc = "bench_done"
    /\ Len(metrics) = 2
    /\ Len(bench_log) = 2
    /\ bench_log[1] = SummaryRecord(<<100>>)
    /\ bench_log[2].total_iterations = 2

\* a tick starts with a frame from the mod in the cache and the connection
\* open
TickWithFrameOnOpen ==
    /\ pc = "loop_head"
    /\ stats'.iterations # stats.iterations
    /\ use_mod_frames
    /\ a_latest_frame # None
    /\ connected
    /\ sock = "open"
TickReachesInference == pc' = "infer" /\ stats'.errors = stats.errors

\* C27: whether or not a state sample is cached, a tick that has a frame on
\* an open connection goes on to its inference call, and what it transmits
\* is exactly one action: a cached state never prevents the action.
C27_StateNeverPreventsAction ==
    /\ [][TickWithFrameOnOpen => TickReachesInference]_vars
    /\ [](Len(tx) <= 1)

\* the response parsed to a dict whose numeric fields, where present, are
\* numbers and whose intents, where present, are booleans
ResponseWellTyped ==
    /\ response # None
    /\ response[1][1] = "content"
    /\ \A k \in DOMAIN response[1][2] :
          response[1][2][k].t = (IF k \in ActionBoolFields THEN "bool" ELSE "num")
\* the value nearest to x within lo..hi
Dist(x, y) == IF y > x THEN y - x ELSE x - y
Nearest(x, lo, hi) ==
    CHOOSE y \in {x, lo, hi} :
        /\ y >= lo /\ y <= hi
        /\ \A z \in {x, lo, hi} : (z >= lo /\ z <= hi) => Dist(x, y) <= Dist(x, z)
\* the documented range of a field, if it has one
Bounded(k) == k \in {"forward", "strafe", "duration_ms"}
Lo(k) == IF k = "duration_ms" THEN 20 ELSE -1
Hi(k) == IF k = "duration_ms" THEN 2000 ELSE 1
Given(k) ==
    IF k \in ActionBoolFields THEN response[1][2][k].b ELSE response[1][2][k].n
Documented(k) ==
    IF k \in ActionBoolFields THEN FALSE
    ELSE IF k = "duration_ms" THEN action_duration_ms_default
    ELSE 0
\* the field k of the action, for a well-typed response: a missing field
\* has the value dflt, a value out of range the nearest value in range, any
\* other field the value given
FieldResolved(k, dflt) ==
    action[1][k] =
        IF k \notin DOMAIN response[1][2] THEN dflt
        ELSE IF Bounded(k) THEN Nearest(Given(k), Lo(k), Hi(k))
        ELSE Given(k)

DocumentedInRange(k) ==
    IF Bounded(k) THEN Nearest(Documented(k), Lo(k), Hi(k)) ELSE Documented(k)

LongBinaryDispatched ==
    /\ CanRead
    /\ inbox # <<>>
    /\ Head(inbox).bin
    /\ Len(Head(inbox).data) >= 9
    /\ inbox' = Tail(inbox)
\* byte i of the message in hand, counted from 0
Byte(i) == Head(inbox).data[i + 1]
FrameDecoded ==
    /\ lastKind' = "frame"
    /\ latest_frame_seq' =
          Byte(1) * 16777216 + Byte(2) * 65536 + Byte(3) * 256 + Byte(4)
    /\ latest_frame_ts' =
          Byte(5) * 16777216 + Byte(6) * 65536 + Byte(7) * 256 + Byte(8)
    /\ latest_frame' # None
    /\ Len(latest_frame'[1]) = Len(Head(inbox).data) - 9
    /\ \A i \in 1..Len(latest_frame'[1]) : latest_frame'[1][i] = Byte(8 + i)
    /\ rl' = "running"
OtherTagIgnored ==
    /\ lastKind' # "frame"
    /\ UNCHANGED <<cacheVars, agentCache, stats, connected>>
    /\ rl' = "running"
LongBinaryHandled ==
    LongBinaryDispatched =>
        IF Byte(0) = 1 THEN FrameDecoded ELSE OtherTagIgnored

\* C29: a binary message of 9 or more bytes is decoded as a frame exactly
\* when byte 0 is 0x01: the sequence number is bytes 1-4 and the timestamp
\* bytes 5-8, each big-endian unsigned, the payload every remaining byte
\* (none for a message of 9 bytes), and the frame replaces the cache; with
\* any other tag the cache stays as it is, no callback runs and the read
\* loop goes on.
C29_BinaryFrameLayout == [][LongBinaryHandled]_vars

C29_Witness ==
    /\ lastKind = "frame"
    /\ lastFrame = Some(FrameE)
    /\ latest_frame = Some(<<>>)
    /\ latest_frame_seq = 256
    /\ latest_frame_ts = 1
    /\ a_latest_frame = Some(<<>>)
    /\ rl = "running"

\* the read loop takes a message off the socket
MessageDispatched == CanRead /\ inbox # <<>> /\ inbox' = Tail(inbox)
\* the variant the message in hand decodes to, "none" if it decodes to none
\* of Ack, State and Frame
Variant ==
    LET m == Head(inbox) IN
    IF m.bin
    THEN IF Len(m.data) >= 9 /\ m.data[1] = 1 THEN "frame" ELSE "none"
    ELSE IF m.json = "object" /\ m.valid /\ m.type \in {"ack", "state"}
         THEN m.type ELSE "none"
\* the sample the message in hand carries
Sample ==
    LET m == Head(inbox) IN
    IF Variant = "frame" THEN Some(SubSeq(m.data, 10, Len(m.data)))
    ELSE IF Variant = "state" THEN Some(m.sid)
    ELSE None
\* what the callbacks of AgentLoop leave behind
FrameCallbackRan ==
    /\ a_latest_frame' = Sample
    /\ stats'.frames_received = stats.frames_received + 1
StateCallbackRan == a_latest_state' = Sample
AckCallbackRan ==
    stats'.actions_acked =
        stats.actions_acked + (IF Head(inbox).applied THEN 1 ELSE 0)
OneMatchingCallback ==
    /\ Len(invoked') = (IF Variant \in callbacks THEN 1 ELSE 0)
    /\ \A i \in 1..Len(invoked') :
          /\ invoked'[i].kind = Variant
          /\ invoked'[i].cached = Sample
    /\ Variant = "frame" => latest_frame' = Sample
    /\ Variant = "state" => latest_state' = Sample
    /\ IF Variant = "frame" /\ "frame" \in callbacks
       THEN FrameCallbackRan
       ELSE a_latest_frame' = a_latest_frame
              /\ stats'.frames_received = stats.frames_received
    /\ IF Variant = "state" /\ "state" \in callbacks
       THEN StateCallbackRan
       ELSE a_latest_state' = a_latest_state
    /\ IF Variant = "ack" /\ "ack" \in callbacks
       THEN AckCallbackRan
       ELSE stats'.actions_acked = stats.actions_acked
CallbacksOfDispatch == MessageDispatched => OneMatchingCallback

\* C30: a dispatched message invokes at most one callback, once, of the
\* kind of its variant (ack, state or frame), and for a state and a frame
\* the client's cache already holds the sample when the callback is called.
C30_OneCallbackAfterCacheUpdate == [][CallbacksOfDispatch]_vars

C30_Witness ==
    /\ lastKind = "state"
    /\ invoked = <<[kind |-> "state", cached |-> Some(2)]>>
    /\ latest_state = Some(2)
    /\ a_latest_state = Some(2)
    /\ msgs = 2
    /\ inbox = <<>>

\* receive_messages has returned after iterating the socket, not by
\* cancellation: the stream ended, the iteration raised, or a handler raised
ReadLoopReturned == rl = "done" /\ rlExit \in {"end", "error", "exception"}
\* C33: whenever receive_messages has returned after iterating an open
\* socket for a reason other than cancellation, the end of the stream at a
\* normal close by the peer included, the connection is marked closed and a
\* send_action call returns failure.
C33_ReadLoopReturnMarksClosed ==
    ReadLoopReturned => (~connected /\ send_action # "sent")

\* C35: whenever run has ended after a successful connect, by returning or
\* by raising, the read task is not running any more and the connection has
\* been closed by the cleanup, also when sending the frame configuration
\* failed before the loop started.
C35_RunEndClosesConnection ==
    (pc \in EndPcs /\ ws # None)
        => /\ rl # "running"
           /\ ~connected
           /\ sock = "closed_local"
           /\ SubSeq(cleanupLog, 1, 2) = <<"cancel_read", "close_conn">>

\* a tick starts: _run_iteration is entered from the head of the loop
TickEntered ==
    /\ pc = "loop_head"
    /\ running
    /\ stats'.iterations = stats.iterations + 1
\* C36: a stop request is never lost, whenever stop() is called (before run
\* has started and during connect included): once a tick has started after
\* the request, no second one starts, the loop goes on to its cleanup.
C36_StopNeverLost ==
    [][~(stopReq # "no" /\ tickAfterStop /\ TickEntered)]_vars

CloseOrConnectCalled ==
    pc = "api" /\ pc' \in {"api_closed", "api_connected", "api_connect_error"}
\* C37: close and connect leave the cached frame and the cached state as
\* they are, and a cache that holds a sample never becomes empty again: after
\* a new connect it still holds the sample of the previous connection.
C37_CacheSurvivesReconnect ==
    /\ [][CloseOrConnectCalled => UNCHANGED <<latest_frame, latest_state>>]_vars
    /\ [][latest_frame # None => latest_frame' # None]_vars
    /\ [][latest_state # None => latest_state' # None]_vars
C37_Witness ==
    /\ pc = "api_connected"
    /\ sock = "open"
    /\ ~orphan
    /\ inbox = <<>>
    /\ latest_frame = Some(<<10>>)
    /\ latest_state = Some(1)

\* the read loop takes a message off the socket
MessageTaken == CanRead /\ inbox # <<>> /\ inbox' = Tail(inbox)
ValidFrameTaken == MessageTaken /\ ValidFrame(Head(inbox))
\* C38: with mod frames in use the frame and the state AgentLoop holds are,
\* after every dispatched message, those the client holds, and
\* frames_received counts the valid frame messages dispatched in the run: it
\* starts at zero and goes up by one with each of them and with nothing else.
C38_AgentCacheFollowsClient ==
    /\ [](use_mod_frames =>
            (a_latest_frame = latest_frame /\ a_latest_state = latest_state))
    /\ [](pc = "idle" => stats.frames_received = 0)
    /\ [][(use_mod_frames /\ ValidFrameTaken)
            => stats'.frames_received = stats.frames_received + 1]_vars
    /\ [][(use_mod_frames /\ ~ValidFrameTaken)
            => stats'.frames_received = stats.frames_received]_vars
C38_Witness ==
    /\ use_mod_frames
    /\ stats.frames_received = 2
    /\ reordered
    /\ a_latest_frame = Some(<<11, 12>>)
    /\ latest_frame = Some(<<11, 12>>)

\* _run_iteration is entered: the loop leaves its head with running set,
\* for the tick's inference call or, the tick being over at once, for the
\* sleep, the next pass or the way out of a failed display update
IterationEntered ==
    /\ pc = "loop_head"
    /\ running
    /\ \/ pc' \in {"infer", "sleep"}
       \/ pc' = "cleanup" /\ ~interrupted'
       \/ pc' = "loop_head" /\ stats' # stats
\* the tick's send_action call has returned
SendReturned == pc \in {"send_wait", "send_ret"} /\ pc' \notin {"send_wait", "send_ret"}
OnlyIterationsChanged ==
    stats' = [stats EXCEPT !.iterations = stats.iterations + 1]
\* C39: iterations goes up by one with every tick started and with nothing
\* else; actions_sent + errors never exceeds iterations; actions_sent goes up,
\* by one, only when the send_action call of a tick returned success; errors
\* goes up, by one, only in a tick that raised (a capture that failed, or a
\* cached state the tick could not read); a tick skipped for want of a frame
\* changes no counter but iterations.
C39_CountersFollowTicks ==
    /\ [](stats.actions_sent + stats.errors <= stats.iterations)
    /\ [][IterationEntered => stats'.iterations = stats.iterations + 1]_vars
    /\ [][stats'.iterations # stats.iterations => IterationEntered]_vars
    /\ [][stats'.actions_sent # stats.actions_sent
            => /\ SendReturned
               /\ sent = "sent"
               /\ tx = <<action[1]>>
               /\ stats'.actions_sent = stats.actions_sent + 1]_vars
    /\ [][stats'.errors # stats.errors
            => /\ IterationEntered
               /\ ~use_mod_frames \/ a_latest_state # None
               /\ pc' \notin TickPcs
               /\ stats'.errors = stats.errors + 1]_vars
    /\ [][(IterationEntered /\ ~HasFrame) => OnlyIterationsChanged]_vars
C39_Witness ==
    /\ use_mod_frames
    /\ pc = "sleep"
    /\ stats.iterations = 2
    /\ stats.actions_sent = 1
    /\ stats.errors = 0
    /\ stats.frames_received = 1

\* the read loop takes a message and the callback invoked for it raises
CallbackRaised == MessageTaken /\ lastKind' = "callback_raised"
\* C34: an exception raised by a registered callback (ack, state or frame)
\* while its message is dispatched leaves the read loop running and the
\* connection marked as it was, so that later messages are still dispatched.
C34_CallbackErrorIsolated ==
    [][CallbackRaised => (rl' = "running" /\ connected' = connected)]_vars

\* the inference call of a benchmark iteration is in flight
BenchInferenceInFlight == pc = "bench_infer"
\* a message is taken off the socket while it is
TakenDuringInference ==
    /\ BenchInferenceInFlight
    /\ inbox # <<>>
    /\ inbox' = Tail(inbox)
StateCachedAndAckCounted ==
    /\ pc' = "bench_infer"
    /\ action' = None
    /\ tx' = <<>>
    /\ LET m == Head(inbox) IN
       /\ (~m.bin /\ m.type = "state" /\ m.valid)
             => (latest_state' = Some(m.sid) /\ b_latest_state' = Some(m.sid))
       /\ (~m.bin /\ m.type = "ack" /\ m.valid)
             => acks_received' = acks_received + 1
\* C31: in the benchmark the inference call runs off the event loop: a
\* message that is waiting while the call is in flight can be dispatched at
\* once, its dispatch caches the state and counts the ack before the call
\* has returned, and the action of the iteration is put on the wire only by
\* the send step that follows the return of the call.
C31_BenchInferenceOffEventLoop ==
    /\ []((BenchInferenceInFlight /\ rl = "running" /\ inbox # <<>>)
             => ENABLED BenchDispatch)
    /\ [][TakenDuringInference => StateCachedAndAckCounted]_vars
    /\ [][(tx' # tx /\ tx' # <<>>)
            => (pc = "bench_send" /\ inferOutcome # "none"
                /\ tx = <<>> /\ tx' = <<action[1]>>)]_vars
C31_Witness ==
    /\ pc = "bench_infer"
    /\ lastKind = "ack"
    /\ acks_received = 1
    /\ b_latest_state = Some(2)
    /\ action = None

\* an iteration ends in its except branch / after its send
BenchIterationRaised == pc = "bench_loop" /\ pc' = "bench_sleep"
BenchIterationCompleted ==
    pc \in {"bench_send_wait", "bench_send_ret"} /\ pc' = "bench_sleep"
SampleAppended ==
    /\ Len(samples') = Len(samples) + 1
    /\ SubSeq(samples', 1, Len(samples)) = samples
\* C32: every recorded sample has end_to_end_ms = t_capture_ms + t_vlm_ms +
\* t_ws_send_ms; the samples are only appended to, one by an iteration that
\* completed and none by an iteration that raised; their timestamps do not
\* decrease along the sequence.
C32_SamplesAppendOnly ==
    /\ [](\A i \in 1..Len(samples) :
             samples[i].end_to_end_ms =
                samples[i].t_capture_ms + samples[i].t_vlm_ms
                    + samples[i].t_ws_send_ms)
    /\ [](\A i \in 1..Len(samples) : \A j \in i..Len(samples) :
             samples[i].timestamp <= samples[j].timestamp)
    /\ [][samples' # samples => (SampleAppended /\ BenchIterationCompleted)]_vars
    /\ [][BenchIterationCompleted => SampleAppended]_vars
    /\ [][BenchIterationRaised => samples' = samples]_vars
C32_Witness ==
    /\ pc = "bench_sleep"
    /\ timing = None
    /\ Len(samples) = 2
    /\ samples[1].t_ws_send_ms = 1
    /\ samples[1].end_to_end_ms = 5
    /\ samples[2].timestamp = samples[1].timestamp + 6
    /\ lastKind = "none"
====
